---- MODULE Spec2Model ----
(***************************************************************************)
(* A model of companysift's scoring and aggregator-filtering engine.       *)
(*                                                                         *)
(* Python strings are sequences of one-character strings, so that          *)
(* lower-casing, prefix stripping, splitting and substring tests are       *)
(* computed character by character as the code computes them.  Python      *)
(* floats are exact rationals [n, d] with d > 0: every comparison the code *)
(* makes is between quotients of small integers and decimal literals, for  *)
(* which the correctly rounded float comparison and the exact comparison   *)
(* agree.                                                                  *)
(***************************************************************************)
EXTENDS Integers, Sequences, FiniteSets, Bags, TLC

VARIABLES
    tracker,     \* a DomainFrequencyTracker: [domain_counts, company_domains, total_searches]
    new_tracker, \* the DomainFrequencyTracker that load_into_tracker fills
    cache,       \* DomainCachePersistence.cache (in memory)
    cache_file,  \* the JSON document save_cache last wrote
    filt,        \* EnhancedBlocklistFilter: [static_blocklist]
    call,        \* the last operation: its name, arguments and return value
    hits,        \* history: bag of <<domain, company>> tracked since the last reset
    calls,       \* history: number of track calls since the last reset
    dup,         \* history: some track call since the last reset held one domain twice
    mirror,      \* the caller mirroring searches into the cache: [pc, company, pending]
    scorer,      \* a ConfidenceScorer: [weights, last], last the sub-scores last stored
    job,         \* a company and its candidates: [company, results, done]
    bfilter,     \* a BlocklistFilter: [blocklist]
    run,         \* a process_companies run: [pipeline, min_confidence, written]
    pool,        \* workers building scorers from one configuration: [config, workers]
    client,      \* a DuckDuckGoClient and the search call it is in
    db           \* the checkpoints table of the SQLite file, and what was recorded since the last restart

trackerVars == <<tracker, hits, calls, dup>>
cacheVars == <<cache, cache_file>>
scorerVars == <<scorer, job>>
vars == <<tracker, new_tracker, cache, cache_file, filt, call, hits, calls, dup, mirror,
         scorer, job, bfilter, run, pool, client, db>>

-----------------------------------------------------------------------------
(* Characters and strings                                                  *)

UpperLetters == <<"A","B","C","D","E","F","G","H","I","J","K","L","M",
                  "N","O","P","Q","R","S","T","U","V","W","X","Y","Z">>
LowerLetters == <<"a","b","c","d","e","f","g","h","i","j","k","l","m",
                  "n","o","p","q","r","s","t","u","v","w","x","y","z">>
Digits == {"0","1","2","3","4","5","6","7","8","9"}

Range(s) == {s[i] : i \in 1..Len(s)}

IsUpper(c) == c \in Range(UpperLetters)
IsLower(c) == c \in Range(LowerLetters)
IsAlnum(c) == IsUpper(c) \/ IsLower(c) \/ c \in Digits
\* the regular expression class \w
IsWordChar(c) == IsAlnum(c) \/ c = "_"
IsSpace(c) == c \in {" ", "\t", "\n"}

LowerChar(c) ==
    IF IsUpper(c)
    THEN LowerLetters[CHOOSE i \in 1..26 : UpperLetters[i] = c]
    ELSE c

UpperChar(c) ==
    IF IsLower(c)
    THEN UpperLetters[CHOOSE i \in 1..26 : LowerLetters[i] = c]
    ELSE c

\* str.lower(), str.upper()
StrLower(s) == [i \in 1..Len(s) |-> LowerChar(s[i])]
StrUpper(s) == [i \in 1..Len(s) |-> UpperChar(s[i])]

\* s[a:b] with 0-based Python bounds, clipped as Python clips them
Slice(s, a, b) ==
    LET lo == IF a < 0 THEN 0 ELSE a
        hi == IF b > Len(s) THEN Len(s) ELSE b
    IN  IF hi <= lo THEN <<>> ELSE SubSeq(s, lo + 1, hi)

StartsWith(s, p) == Len(p) <= Len(s) /\ SubSeq(s, 1, Len(p)) = p
EndsWith(s, p) == Len(p) <= Len(s) /\ SubSeq(s, Len(s) - Len(p) + 1, Len(s)) = p

\* the Python test  sub in s  on strings
Contains(s, sub) ==
    \E i \in 0..(Len(s) - Len(sub)) : SubSeq(s, i + 1, i + Len(sub)) = sub

\* index (1-based) of the first character of s in set cs, or Len(s)+1
FirstIn(s, cs) ==
    IF \E i \in 1..Len(s) : s[i] \in cs
    THEN CHOOSE i \in 1..Len(s) : s[i] \in cs /\ \A j \in 1..(i - 1) : s[j] \notin cs
    ELSE Len(s) + 1

\* str.strip()
RECURSIVE LStrip(_)
LStrip(s) == IF s # <<>> /\ IsSpace(Head(s)) THEN LStrip(Tail(s)) ELSE s
RECURSIVE RStrip(_)
RStrip(s) ==
    IF s # <<>> /\ IsSpace(s[Len(s)]) THEN RStrip(SubSeq(s, 1, Len(s) - 1)) ELSE s
Strip(s) == RStrip(LStrip(s))

\* str.split(c): the list of fields between occurrences of character c
RECURSIVE SplitOn(_, _)
SplitOn(s, c) ==
    LET i == FirstIn(s, {c})
    IN  IF i > Len(s) THEN <<s>>
        ELSE <<SubSeq(s, 1, i - 1)>> \o SplitOn(SubSeq(s, i + 1, Len(s)), c)

\* str.split(): the list of maximal runs of non-whitespace
RECURSIVE SplitWs(_)
SplitWs(s) ==
    LET t == LStrip(s)
        i == FirstIn(t, {" ", "\t", "\n"})
    IN  IF t = <<>> THEN <<>>
        ELSE <<SubSeq(t, 1, i - 1)>> \o SplitWs(SubSeq(t, i, Len(t)))

\* sep.join(parts)
RECURSIVE Join(_, _)
Join(parts, sep) ==
    IF parts = <<>> THEN <<>>
    ELSE IF Len(parts) = 1 THEN parts[1]
    ELSE parts[1] \o sep \o Join(Tail(parts), sep)

\* re.sub(r'[^\w]', ' ', s)
NonWordToSpace(s) == [i \in 1..Len(s) |-> IF IsWordChar(s[i]) THEN s[i] ELSE " "]

\* ''.join(c for c in s if c.isalnum())
AlnumOnly(s) == SelectSeq(s, IsAlnum)

-----------------------------------------------------------------------------
(* Rationals standing for floats                                           *)

RECURSIVE GCD(_, _)
GCD(a, b) == IF b = 0 THEN a ELSE GCD(b, a % b)

Abs(x) == IF x < 0 THEN -x ELSE x

Rat(n, d) ==
    LET g == GCD(Abs(n), d)
    IN  [n |-> n \div g, d |-> d \div g]

RZero == Rat(0, 1)
ROne == Rat(1, 1)
RAdd(a, b) == Rat(a.n * b.d + b.n * a.d, a.d * b.d)
RSub(a, b) == Rat(a.n * b.d - b.n * a.d, a.d * b.d)
RMul(a, b) == Rat(a.n * b.n, a.d * b.d)
RLe(a, b) == a.n * b.d <= b.n * a.d
RLt(a, b) == a.n * b.d < b.n * a.d
RGe(a, b) == RLe(b, a)
RGt(a, b) == RLt(b, a)
RMax(a, b) == IF RLe(a, b) THEN b ELSE a
RMin(a, b) == IF RLe(a, b) THEN a ELSE b

-----------------------------------------------------------------------------
(* urllib.parse.urlparse, as far as the engine reads it: the netloc        *)

SchemeChars == Range(UpperLetters) \cup Range(LowerLetters) \cup Digits \cup {"+", "-", "."}

\* url with its scheme and the colon removed, when it starts with one
AfterScheme(url) ==
    LET i == FirstIn(url, {":"})
    IN  IF /\ i > 1
           /\ i <= Len(url)
           /\ (IsUpper(url[1]) \/ IsLower(url[1]))
           /\ \A j \in 1..(i - 1) : url[j] \in SchemeChars
        THEN SubSeq(url, i + 1, Len(url))
        ELSE url

\* the netloc of a URL whose scheme has been removed: the text between a
\* leading // and the next /, ? or #
NetlocOf(rest) ==
    IF StartsWith(rest, <<"/", "/">>)
    THEN SubSeq(rest, 3, FirstIn(SubSeq(rest, 3, Len(rest)), {"/", "?", "#"}) + 1)
    ELSE <<>>

\* ValueError ("Invalid IPv6 URL") for a netloc with one square bracket but not the other
CheckBrackets(netloc) ==
    IF ("[" \in Range(netloc)) # ("]" \in Range(netloc))
    THEN [raised |-> TRUE, netloc |-> <<>>]
    ELSE [raised |-> FALSE, netloc |-> netloc]

\* [raised, netloc]
urlparse(url) == CheckBrackets(NetlocOf(AfterScheme(url)))

Www == <<"w", "w", "w", ".">>

-----------------------------------------------------------------------------
(* DomainFrequencyTracker                                                  *)

\* domain.startswith('www.') and domain[4:], then domain.split(':')[0]
StripWwwAndPort(domain) ==
    SplitOn(IF StartsWith(domain, Www) THEN SubSeq(domain, 5, Len(domain)) ELSE domain,
            ":")[1]

ExtractFromParsed(parsed) ==
    IF parsed.raised
    THEN [raised |-> TRUE, value |-> <<>>]
    ELSE [raised |-> FALSE, value |-> StripWwwAndPort(parsed.netloc)]

\* [raised, value]: netloc without a leading www. and without a port
extract_domain(url) == ExtractFromParsed(urlparse(url))

\* a defaultdict read-modify-write: d[k] = f(d[k]), with dflt for a missing key
DictGet(d, k, dflt) == IF k \in DOMAIN d THEN d[k] ELSE dflt
DictPut(d, k, v) == [x \in DOMAIN d \cup {k} |-> IF x = k THEN v ELSE d[x]]

EmptyDict == [x \in {} |-> 0]

NewTracker ==
    [domain_counts |-> EmptyDict, company_domains |-> EmptyDict, total_searches |-> 0]

\* the body of the loop of track_search_results for one result
TrackOneDup(tr, company_name, domain) ==
    [tr EXCEPT
        !.domain_counts =
            IF company_name \in DictGet(tr.company_domains, domain, {})
            THEN tr.domain_counts
            ELSE DictPut(tr.domain_counts, domain, DictGet(tr.domain_counts, domain, 0) + 1),
        !.company_domains =
            DictPut(tr.company_domains, domain,
                    DictGet(tr.company_domains, domain, {}) \cup {company_name})]

TrackOne(tr, company_name, domain) ==
    [tr EXCEPT
        !.domain_counts =
            DictPut(tr.domain_counts, domain, DictGet(tr.domain_counts, domain, 0) + 1),
        !.company_domains =
            DictPut(tr.company_domains, domain,
                    DictGet(tr.company_domains, domain, {}) \cup {company_name})]

\* [tr, raised]: the loop; a ValueError from _extract_domain leaves the loop
RECURSIVE TrackLoop(_, _, _)
TrackStep(tr, company_name, domain, rest) ==
    IF domain.raised
    THEN [tr |-> tr, raised |-> TRUE]
    ELSE TrackLoop(TrackOne(tr, company_name, domain.value), company_name, rest)

TrackLoop(tr, company_name, search_results) ==
    IF search_results = <<>>
    THEN [tr |-> tr, raised |-> FALSE]
    ELSE TrackStep(tr, company_name, extract_domain(Head(search_results).url),
                   Tail(search_results))

track_without_counting_the_search(tr, company_name, search_results) ==
    TrackLoop(tr, company_name, search_results)

track_search_results(tr, company_name, search_results) ==
    TrackLoop([tr EXCEPT !.total_searches = tr.total_searches + 1],
              company_name, search_results)

DefaultThreshold == Rat(3, 10)
DefaultMinOccurrences == 3

\* count / total_searches
Frequency(count, total_searches) == Rat(count, total_searches)

IsAggregatorStrict(count, total_searches, threshold, min_occurrences) ==
    count > min_occurrences /\ RGe(Frequency(count, total_searches), threshold)

\* a test that takes the domains at or below the threshold
IsAggregatorBelow(count, total_searches, threshold, min_occurrences) ==
    count >= min_occurrences /\ RLe(Frequency(count, total_searches), threshold)

\* the test of the loop of identify_aggregators
IsAggregatorCount(count, total_searches, threshold, min_occurrences) ==
    count >= min_occurrences /\ RGe(Frequency(count, total_searches), threshold)

identify_aggregators(tr, threshold, min_occurrences) ==
    IF tr.total_searches = 0
    THEN {}
    ELSE {domain \in DOMAIN tr.domain_counts :
            IsAggregatorCount(tr.domain_counts[domain], tr.total_searches,
                              threshold, min_occurrences)}

\* frequency as get_domain_stats and _is_aggregator compute it
GuardedFrequency(count, total_searches) ==
    IF total_searches > 0 THEN Frequency(count, total_searches) ELSE RZero

is_aggregator(tr, domain, threshold, min_occurrences) ==
    LET count == DictGet(tr.domain_counts, domain, 0)
        frequency == GuardedFrequency(count, tr.total_searches)
    IN  count >= min_occurrences /\ RGe(frequency, threshold)

get_domain_stats(tr, domain) ==
    LET count == DictGet(tr.domain_counts, domain, 0)
    IN  [count |-> count,
         frequency |-> GuardedFrequency(count, tr.total_searches),
         companies |-> DictGet(tr.company_domains, domain, {}),
         is_aggregator |-> is_aggregator(tr, domain, DefaultThreshold, DefaultMinOccurrences)]

get_summary(tr) ==
    LET aggregators == identify_aggregators(tr, DefaultThreshold, DefaultMinOccurrences)
        unique_domains == Cardinality(DOMAIN tr.domain_counts)
    IN  [total_searches |-> tr.total_searches,
         unique_domains |-> unique_domains,
         identified_aggregators |-> Cardinality(aggregators),
         aggregator_domains |-> aggregators,
         average_domains_per_search |-> GuardedFrequency(unique_domains, tr.total_searches)]

reset(tr) ==
    [domain_counts |-> EmptyDict, company_domains |-> EmptyDict, total_searches |-> 0]

-----------------------------------------------------------------------------
(* BlocklistFilter                                                         *)

\* domain = parsed.netloc.lower() without a leading www.
BlockedDomain(lowered) ==
    IF StartsWith(lowered, Www) THEN SubSeq(lowered, 5, Len(lowered)) ELSE lowered

\* the domain _is_blocked matches against: [raised, value], raised when urlparse raises
BlocklistDomainParsed(parsed) ==
    IF parsed.raised
    THEN [raised |-> TRUE, value |-> <<>>]
    ELSE [raised |-> FALSE, value |-> BlockedDomain(StrLower(parsed.netloc))]

blocklist_domain(url) == BlocklistDomainParsed(urlparse(url))

\* __init__ and update_blocklist: entries lower-cased and trimmed, blank ones dropped
RECURSIVE NormalizeBlocklist(_)
NormalizeBlocklist(blocklist) ==
    IF blocklist = <<>> THEN <<>>
    ELSE IF Strip(Head(blocklist)) = <<>> THEN NormalizeBlocklist(Tail(blocklist))
    ELSE <<Strip(StrLower(Head(blocklist)))>> \o NormalizeBlocklist(Tail(blocklist))

\* BlocklistFilter(blocklist), and the filter after update_blocklist(blocklist)
BlocklistFilter(blocklist) == [blocklist |-> NormalizeBlocklist(blocklist)]

\* the loop over self.blocklist
MatchesBlocklist(blocklist, domain) ==
    \E i \in 1..Len(blocklist) :
        \/ domain = blocklist[i]
        \/ EndsWith(domain, <<".">> \o blocklist[i])

\* a match that blocks what cannot be parsed
BlockedParsedFailClosed(blocklist, parsed) ==
    IF parsed.raised THEN TRUE
    ELSE MatchesBlocklist(blocklist, BlockedDomain(StrLower(parsed.netloc)))

\* a match that compares the network location as it is spelled
BlockedParsedCaseSensitive(blocklist, parsed) ==
    IF parsed.raised THEN FALSE
    ELSE MatchesBlocklist(blocklist, BlockedDomain(parsed.netloc))

BlockedParsed(blocklist, parsed) ==
    IF parsed.raised THEN FALSE
    ELSE MatchesBlocklist(blocklist, BlockedDomain(StrLower(parsed.netloc)))

\* blocklist is the normalized list the filter holds
is_blocked(blocklist, url) ==
    IF url = <<>> THEN FALSE ELSE BlockedParsed(blocklist, urlparse(url))

\* a filter that keeps the blocked results and drops the others
RECURSIVE blocklist_filter_results_inverted(_, _)
blocklist_filter_results_inverted(blocklist, results) ==
    IF results = <<>> THEN <<>>
    ELSE IF ~is_blocked(blocklist, Head(results).url)
    THEN blocklist_filter_results_inverted(blocklist, Tail(results))
    ELSE <<Head(results)>> \o blocklist_filter_results_inverted(blocklist, Tail(results))

RECURSIVE blocklist_filter_results(_, _)
blocklist_filter_results(blocklist, results) ==
    IF results = <<>> THEN <<>>
    ELSE IF is_blocked(blocklist, Head(results).url)
    THEN blocklist_filter_results(blocklist, Tail(results))
    ELSE <<Head(results)>> \o blocklist_filter_results(blocklist, Tail(results))

-----------------------------------------------------------------------------
(* EnhancedBlocklistFilter                                                 *)

\* [raised, ret]: the loop of _apply_static_filter, filtered being the list built so far
RECURSIVE StaticLoop(_, _, _)
StaticStep(static_blocklist, results, filtered, domain) ==
    IF domain.raised
    THEN [raised |-> TRUE, ret |-> <<>>]
    ELSE StaticLoop(static_blocklist, Tail(results),
                    IF domain.value \notin Range(static_blocklist)
                    THEN Append(filtered, Head(results))
                    ELSE filtered)

StaticLoop(static_blocklist, results, filtered) ==
    IF results = <<>>
    THEN [raised |-> FALSE, ret |-> filtered]
    ELSE StaticStep(static_blocklist, results, filtered,
                    extract_domain(Head(results).url))

\* [raised, ret]: the results whose extracted domain is not an element of the list
apply_static_filter(static_blocklist, results) ==
    StaticLoop(static_blocklist, results, <<>>)

\* the second loop of _apply_dynamic_filter, filtered being the list built so far
RECURSIVE DynamicLoop(_, _, _)
DynamicLoop(results, aggregators, filtered) ==
    IF results = <<>> THEN filtered
    ELSE DynamicLoop(Tail(results), aggregators,
                     IF extract_domain(Head(results).url).value \notin aggregators
                     THEN Append(filtered, Head(results))
                     ELSE filtered)

\* what _apply_dynamic_filter does after tracking
DynamicAfterTrack(tracked, results) ==
    IF tracked.raised
    THEN [raised |-> TRUE, tr |-> tracked.tr, ret |-> <<>>]
    ELSE [raised |-> FALSE, tr |-> tracked.tr,
          ret |-> DynamicLoop(results,
                    identify_aggregators(tracked.tr, DefaultThreshold, DefaultMinOccurrences),
                    <<>>)]

\* [raised, tr, ret]: track the results, then drop the current aggregators
apply_dynamic_filter(tr, results, company_name) ==
    DynamicAfterTrack(track_search_results(tr, company_name, results), results)

\* a filter that applies the static list only after tracking and dynamic filtering
StaticAfterDynamic(static_blocklist, dynamic) ==
    [raised |-> dynamic.raised,
     tr |-> dynamic.tr,
     ret |-> apply_static_filter(static_blocklist, dynamic.ret).ret]

filter_results_track_first(static_blocklist, tr, results, company_name) ==
    StaticAfterDynamic(static_blocklist, apply_dynamic_filter(tr, results, company_name))

\* what filter_results does with the outcome of the static pass
DynamicAfterStatic(static, tr, company_name) ==
    IF static.raised
    THEN [raised |-> TRUE, tr |-> tr, ret |-> <<>>]
    ELSE apply_dynamic_filter(tr, static.ret, company_name)

\* [raised, tr, ret]
filter_results(static_blocklist, tr, results, company_name) ==
    DynamicAfterStatic(apply_static_filter(static_blocklist, results), tr, company_name)

\* list.sort(key=frequency, reverse=True): stable, larger frequency first
RECURSIVE InsertByFrequency(_, _)
InsertByFrequency(sorted, item) ==
    IF sorted = <<>> THEN <<item>>
    ELSE IF RLt(Head(sorted).frequency, item.frequency)
    THEN <<item>> \o sorted
    ELSE <<Head(sorted)>> \o InsertByFrequency(Tail(sorted), item)

RECURSIVE SortByFrequency(_)
SortByFrequency(items) ==
    IF items = <<>> THEN <<>>
    ELSE InsertByFrequency(SortByFrequency(SubSeq(items, 1, Len(items) - 1)),
                           items[Len(items)])

\* [raised, ret]: the loop over domain_counts.items() taken in the order `order`,
\* suspected being the list built so far
RECURSIVE SuspectedLoop(_, _, _, _, _, _)
SuspectedLoop(static_blocklist, tr, confirmed_aggregators, min_suspicion, order, suspected) ==
    IF order = <<>>
    THEN [raised |-> FALSE, ret |-> suspected]
    ELSE LET domain == Head(order)
             count == tr.domain_counts[domain]
         IN  IF domain \in Range(static_blocklist) \/ domain \in confirmed_aggregators
             THEN SuspectedLoop(static_blocklist, tr, confirmed_aggregators,
                                min_suspicion, Tail(order), suspected)
             ELSE IF tr.total_searches = 0
             THEN [raised |-> TRUE, ret |-> <<>>]      \* ZeroDivisionError
             ELSE SuspectedLoop(static_blocklist, tr, confirmed_aggregators,
                                min_suspicion, Tail(order),
                                IF RGe(Frequency(count, tr.total_searches), min_suspicion)
                                THEN Append(suspected,
                                        [domain |-> domain,
                                         count |-> count,
                                         frequency |-> Frequency(count, tr.total_searches),
                                         companies |-> DictGet(tr.company_domains, domain, {})])
                                ELSE suspected)

\* order: the iteration order of the dict domain_counts (its insertion order)
get_suspected_aggregators(static_blocklist, tr, min_suspicion, order) ==
    LET confirmed_aggregators ==
            identify_aggregators(tr, DefaultThreshold, DefaultMinOccurrences)
        found == SuspectedLoop(static_blocklist, tr, confirmed_aggregators,
                               min_suspicion, order, <<>>)
    IN  IF found.raised THEN found
        ELSE [raised |-> FALSE, ret |-> SortByFrequency(found.ret)]

\* the orders in which a dict with these keys can be iterated
Orders(keys) ==
    {o \in [1..Cardinality(keys) -> keys] : \A i, j \in DOMAIN o : i # j => o[i] # o[j]}

-----------------------------------------------------------------------------
(* DomainCachePersistence                                                  *)

EmptyCache ==
    [domain_counts |-> EmptyDict, company_domains |-> EmptyDict, total_searches |-> 0]

\* the cache file: absent, or holding the document json.dump wrote
NoFile == [exists |-> FALSE, doc |-> EmptyCache]

\* json.dump of the cache: string keys, integer counts and lists of strings
\* are written and read back as they are
save_cache(c) == [exists |-> TRUE, doc |-> c]

\* _load_cache: the document in the file, or the empty cache
load_cache(file) == IF file.exists THEN file.doc ELSE EmptyCache

update_cache(c, domain, company_name) ==
    [c EXCEPT
        !.domain_counts = DictPut(c.domain_counts, domain, DictGet(c.domain_counts, domain, 0) + 1),
        !.company_domains =
            IF company_name \notin Range(DictGet(c.company_domains, domain, <<>>))
            THEN DictPut(c.company_domains, domain,
                         DictGet(c.company_domains, domain, <<>>) \o <<company_name>>)
            ELSE c.company_domains]

increment_search_count(c) == [c EXCEPT !.total_searches = c.total_searches + 1]

load_into_tracker_no_total(c) ==
    [domain_counts |-> c.domain_counts,
     company_domains |-> [d \in DOMAIN c.company_domains |-> Range(c.company_domains[d])],
     total_searches |-> 0]

\* the tracker state that load_into_tracker assigns
load_into_tracker(c) ==
    [domain_counts |-> c.domain_counts,
     company_domains |-> [d \in DOMAIN c.company_domains |-> Range(c.company_domains[d])],
     total_searches |-> c.total_searches]

-----------------------------------------------------------------------------
(* ConfidenceScorer                                                        *)

Max(a, b) == IF a >= b THEN a ELSE b
Min(a, b) == IF a <= b THEN a ELSE b

RDiv(a, b) == Rat(a.n * b.d, a.d * b.n)

WeightKeys == {"domain_match", "tld_relevance", "search_position", "title_match"}

DefaultWeights ==
    [domain_match |-> Rat(2, 5), tld_relevance |-> Rat(2, 5),
     search_position |-> Rat(1, 10), title_match |-> Rat(1, 10)]

\* an optional argument: <<>> is None, <<v>> is the value v
None == <<>>
Some(v) == <<v>>

\* sum(self.weights.values())
SumWeights(w) ==
    RAdd(RAdd(w.domain_match, w.tld_relevance), RAdd(w.search_position, w.title_match))

\* self.weights[key] /= total_weight, for every key, when the total is positive
NormalizeBy(w, total_weight) ==
    IF RGt(total_weight, RZero)
    THEN [key \in WeightKeys |-> RDiv(w[key], total_weight)]
    ELSE w

\* a scorer that keeps the weights it is given
ScorerWithoutNormalization(weights) ==
    [weights |-> IF weights = None THEN DefaultWeights ELSE weights[1],
     last |-> None]

\* ConfidenceScorer(weights): last holds the _last_*_score attributes once set
WeightsOrDefault(weights) == IF weights = None THEN DefaultWeights ELSE weights[1]

NormalizedScorer(w) == [weights |-> NormalizeBy(w, SumWeights(w)), last |-> None]

ConfidenceScorer(weights) == NormalizedScorer(WeightsOrDefault(weights))

CommonSuffixes ==
    {<<"L", "I", "M", "I", "T", "E", "D">>, <<"L", "T", "D">>, <<"P", "L", "C">>, <<"L", "L", "C">>, <<"I", "N", "C">>, <<"C", "O", "R", "P">>, <<"C", "O">>, <<"G", "R", "O", "U", "P">>}

\* the words without a trailing common suffix, or the name as it was given
DropSuffix(words, company_name) ==
    IF Len(words) > 1 /\ words[Len(words)] \in CommonSuffixes
    THEN Join(SubSeq(words, 1, Len(words) - 1), <<" ">>)
    ELSE company_name

clean_company_name_for_matching(company_name) ==
    DropSuffix(SplitWs(StrUpper(NonWordToSpace(company_name))), company_name)

\* domain[4:] when domain.startswith("www.")
StripWww(domain) ==
    IF StartsWith(domain, Www) THEN SubSeq(domain, 5, Len(domain)) ELSE domain

SecondLevelLabels == {<<"c", "o">>, <<"c", "o", "m">>, <<"o", "r", "g">>, <<"n", "e", "t">>}

\* the last three labels under a UK second-level label, else the last two
MainDomainOf(domain_parts, domain) ==
    IF Len(domain_parts) > 2
    THEN IF /\ domain_parts[Len(domain_parts) - 1] \in SecondLevelLabels
            /\ domain_parts[Len(domain_parts)] = <<"u", "k">>
         THEN Join(SubSeq(domain_parts, Len(domain_parts) - 2, Len(domain_parts)), <<".">>)
         ELSE Join(SubSeq(domain_parts, Len(domain_parts) - 1, Len(domain_parts)), <<".">>)
    ELSE domain

MainDomain(domain) == MainDomainOf(SplitOn(domain, "."), domain)

\* company_name of _calculate_domain_match: cleaned, non-word characters blanked, lower-cased
MatchingName(company_name) ==
    StrLower(NonWordToSpace(clean_company_name_for_matching(company_name)))

\* company_words = set(company_name.split())
CompanyWords(company_name) == Range(SplitWs(MatchingName(company_name)))

\* the words of the domain longer than two characters
DomainWords(domain) == {word \in Range(SplitWs(NonWordToSpace(domain))) : Len(word) > 2}

\* sum(1 for ca, cb in zip(a, b) if ca == cb)
SamePositions(a, b) == Cardinality({i \in 1..Min(Len(a), Len(b)) : a[i] = b[i]})

\* (length_diff + (len(a) - matches) * 0.5) / max(len(a), len(b))
EditDistanceRatio(a, b) ==
    Rat(2 * Abs(Len(a) - Len(b)) + Len(a) - SamePositions(a, b),
        2 * Max(Len(a), Len(b)))

\* matches / len(company_words)
WordMatchRatio(company_words, domain_words) ==
    Rat(Cardinality({word \in company_words : word \in domain_words}),
        Cardinality(company_words))

\* the boost when the domain starts with the word that company_words.pop() returned
StartsWithBoost(match_ratio, domain, first_word) ==
    IF StartsWith(domain, first_word)
    THEN RMin(ROne, RAdd(match_ratio, Rat(1, 5)))
    ELSE match_ratio

\* the containment cascade; company_words are the words left after the pop
FuzzyMatch(match_ratio, company_name_clean, domain_clean, company_words) ==
    IF \/ Contains(domain_clean, company_name_clean)
       \/ Contains(company_name_clean, domain_clean)
    THEN IF Abs(Len(company_name_clean) - Len(domain_clean)) > 0
         THEN IF RGt(EditDistanceRatio(company_name_clean, domain_clean), Rat(1, 5))
              THEN RMax(match_ratio, Rat(3, 5))
              ELSE RMax(match_ratio, Rat(9, 10))
         ELSE RMax(match_ratio, Rat(9, 10))
    ELSE IF company_words # {} /\ \E word \in company_words : Contains(domain_clean, word)
    THEN RMax(match_ratio, Rat(7, 10))
    ELSE IF Len(domain_clean) >= 3 /\ Contains(company_name_clean, domain_clean)
    THEN RMax(match_ratio, Rat(4, 5))
    ELSE IF \/ StartsWith(domain_clean, Slice(company_name_clean, 0, 4))
            \/ StartsWith(company_name_clean, Slice(domain_clean, 0, 4))
    THEN RMax(match_ratio, Rat(1, 2))
    ELSE match_ratio

\* 1. prefix matching
PrefixMatch(match_ratio, company_name_clean, domain_clean) ==
    IF StartsWith(domain_clean,
                  Slice(company_name_clean, 0, Min(4, Len(company_name_clean))))
    THEN IF Abs(Len(company_name_clean) - Len(domain_clean)) > 0
         THEN IF RGt(EditDistanceRatio(company_name_clean, domain_clean), Rat(1, 5))
              THEN RMax(match_ratio, Rat(3, 10))
              ELSE RMax(match_ratio, Rat(4, 5))
         ELSE RMax(match_ratio, Rat(4, 5))
    ELSE match_ratio

\* s.replace('-', '')
NoHyphen(s) == SelectSeq(s, LAMBDA c : c # "-")

\* 2. hyphen normalization
HyphenContained(match_ratio, company_no_hyphen, domain_no_hyphen) ==
    IF \/ Contains(domain_no_hyphen, company_no_hyphen)
       \/ Contains(company_no_hyphen, domain_no_hyphen)
    THEN RMax(match_ratio, Rat(19, 20))
    ELSE match_ratio

HyphenMatch(match_ratio, company_name_clean, domain_clean) ==
    HyphenContained(match_ratio, NoHyphen(company_name_clean), NoHyphen(domain_clean))

\* 3. acronym matching
AcronymMatch(match_ratio, company_name_clean, domain_clean) ==
    IF Len(company_name_clean) <= 4 /\ Contains(domain_clean, StrLower(company_name_clean))
    THEN RMax(match_ratio, Rat(9, 10))
    ELSE match_ratio

\* ''.join(word[0] for word in company_words if len(word) > 0), in iteration order
RECURSIVE Initials(_)
Initials(words) ==
    IF words = <<>> THEN <<>>
    ELSE (IF Len(Head(words)) > 0 THEN <<Head(words)[1]>> ELSE <<>>) \o Initials(Tail(words))

\* overlap / max(len(company_name_clean), len(domain_clean))
Similarity(company_name_clean, domain_clean) ==
    Rat(Cardinality(Range(company_name_clean) \cap Range(domain_clean)),
        Max(Len(company_name_clean), Len(domain_clean)))

LowSimilarityScore(similarity) ==
    IF RLt(similarity, Rat(2, 5))
    THEN RMax(Rat(1, 5), RMul(RMul(Rat(1, 2), similarity), Rat(3, 2)))
    ELSE Rat(1, 2)

InitialsScore(company_name_clean, domain_clean) ==
    IF Len(company_name_clean) > 0 /\ Len(domain_clean) > 0
    THEN LowSimilarityScore(Similarity(company_name_clean, domain_clean))
    ELSE Rat(1, 2)

\* 4. initialism matching; remaining are the words left after the pop, in iteration order
InitialismFound(match_ratio, company_name_clean, domain_clean, company_initials, remaining) ==
    IF /\ Len(company_initials) >= 2
       /\ Contains(domain_clean, StrLower(company_initials))
       /\ Len(remaining) >= 2
    THEN RMax(match_ratio, InitialsScore(company_name_clean, domain_clean))
    ELSE match_ratio

InitialismMatch(match_ratio, company_name_clean, domain_clean, remaining) ==
    InitialismFound(match_ratio, company_name_clean, domain_clean,
                    Initials(remaining), remaining)

\* what the edit-distance check does with edit_dist / max_length and match_pct
EditPenalty(match_ratio, edit_distance_ratio, match_pct) ==
    IF RGt(edit_distance_ratio, Rat(1, 2))
    THEN RMax(Rat(3, 20),
              RMul(match_ratio,
                   RSub(ROne, RMin(Rat(3, 5), RMul(edit_distance_ratio, Rat(3, 2))))))
    ELSE IF RLt(edit_distance_ratio, Rat(1, 10)) /\ RGt(match_pct, Rat(4, 5))
    THEN RMin(Rat(19, 20), RMul(match_ratio, Rat(11, 10)))
    ELSE match_ratio

\* 5. [raised, value]: simple_edit_distance returns one number, not a pair, for an
\* empty string, and unpacking it is a TypeError the except clause does not catch
EditDistanceCheck(match_ratio, company_name_clean, domain_clean) ==
    IF RGe(match_ratio, Rat(1, 2)) /\ RLe(match_ratio, Rat(3, 4))
    THEN IF company_name_clean = <<>> \/ domain_clean = <<>>
         THEN [raised |-> TRUE, value |-> RZero]
         ELSE [raised |-> FALSE,
               value |-> EditPenalty(match_ratio,
                            EditDistanceRatio(company_name_clean, domain_clean),
                            Rat(SamePositions(company_name_clean, domain_clean),
                                Max(Len(company_name_clean), Len(domain_clean))))]
    ELSE [raised |-> FALSE, value |-> match_ratio]

\* the steps of _calculate_domain_match after the word-match ratio
MatchCascade(match_ratio, company_name_clean, domain_clean, remaining) ==
    EditDistanceCheck(
        InitialismMatch(
            AcronymMatch(
                HyphenMatch(
                    PrefixMatch(
                        FuzzyMatch(match_ratio, company_name_clean, domain_clean,
                                   Range(remaining)),
                        company_name_clean, domain_clean),
                    company_name_clean, domain_clean),
                company_name_clean, domain_clean),
            company_name_clean, domain_clean, remaining),
        company_name_clean, domain_clean)

\* order is the iteration order of the set company_words: pop() returns order[1]
DomainMatchWords(company_name, domain, order) ==
    IF order = <<>>
    THEN [raised |-> FALSE, value |-> RZero]
    ELSE MatchCascade(
            StartsWithBoost(WordMatchRatio(Range(order), DomainWords(domain)),
                            domain, order[1]),
            AlnumOnly(company_name), AlnumOnly(domain), Tail(order))

DomainMatchParsed(parsed, company_name, order) ==
    IF parsed.raised
    THEN [raised |-> FALSE, value |-> RZero]
    ELSE DomainMatchWords(MatchingName(company_name),
                          MainDomain(StripWww(StrLower(parsed.netloc))), order)

\* [raised, value]
calculate_domain_match(company, result, order) ==
    IF result.url = <<>>
    THEN [raised |-> FALSE, value |-> RZero]
    ELSE DomainMatchParsed(urlparse(result.url), company.company_name, order)

IsDigit(c) == c \in Digits

\* re.match(r'^[A-Z]{1,2}\d[A-Z\d]? ?\d[A-Z]{2}$', s): letters is the length of the
\* first group, extra and space say whether the optional characters are present
PostcodeShape(s, letters, extra, space) ==
    /\ Len(s) = letters + 1 + extra + space + 3
    /\ \A i \in 1..letters : IsUpper(s[i])
    /\ IsDigit(s[letters + 1])
    /\ extra = 1 => (IsUpper(s[letters + 2]) \/ IsDigit(s[letters + 2]))
    /\ space = 1 => s[letters + 1 + extra + 1] = " "
    /\ IsDigit(s[Len(s) - 2])
    /\ IsUpper(s[Len(s) - 1])
    /\ IsUpper(s[Len(s)])

IsUKPostcode(s) ==
    \E letters \in 1..2, extra \in 0..1, space \in 0..1 : PostcodeShape(s, letters, extra, space)

\* company.postcode is non-empty and, upper-cased and stripped, matches the pattern
is_uk_company(company) ==
    company.postcode # <<>> /\ IsUKPostcode(Strip(StrUpper(company.postcode)))

UkTlds == {<<".", "c", "o", ".", "u", "k">>, <<".", "u", "k">>, <<".", "o", "r", "g", ".", "u", "k">>, <<".", "m", "e", ".", "u", "k">>, <<".", "n", "e", "t", ".", "u", "k">>}
CountryTlds == {<<".", "u", "s">>, <<".", "c", "a">>, <<".", "a", "u">>, <<".", "d", "e">>, <<".", "f", "r">>, <<".", "j", "p">>, <<".", "c", "n">>, <<".", "a", "e">>, <<".", "s", "g">>}
CommonTlds == {<<".", "c", "o", "m">>, <<".", "o", "r", "g">>, <<".", "n", "e", "t">>, <<".", "i", "o">>, <<".", "b", "i", "z">>}

HasTld(domain, tlds) == \E tld \in tlds : EndsWith(domain, tld)

TldOf(domain, uk) ==
    IF HasTld(domain, UkTlds) THEN (IF uk THEN ROne ELSE Rat(4, 5))
    ELSE IF uk /\ EndsWith(domain, <<".", "i", "n">>) THEN Rat(1, 20)
    ELSE IF uk /\ HasTld(domain, CountryTlds) THEN Rat(1, 10)
    ELSE IF HasTld(domain, CommonTlds) THEN (IF uk THEN Rat(1, 2) ELSE Rat(7, 10))
    ELSE Rat(1, 5)

TldParsed(parsed, company) ==
    IF parsed.raised THEN Rat(1, 5)
    ELSE TldOf(StrLower(parsed.netloc), is_uk_company(company))

calculate_tld_relevance(result, company) ==
    IF result.url = <<>> THEN RZero ELSE TldParsed(urlparse(result.url), company)

\* a position score that is not clamped at zero for the far ranks
calculate_position_score_unclamped(position) ==
    IF position <= 0 THEN RZero
    ELSE IF position = 1 THEN ROne
    ELSE IF position = 2 THEN Rat(4, 5)
    ELSE IF position <= 5 THEN Rat(3, 5)
    ELSE IF position <= 10 THEN Rat(2, 5)
    ELSE RSub(Rat(7, 10), RMul(Rat(position, 1), Rat(1, 20)))

calculate_position_score(position) ==
    IF position <= 0 THEN RZero
    ELSE IF position = 1 THEN ROne
    ELSE IF position = 2 THEN Rat(4, 5)
    ELSE IF position <= 5 THEN Rat(3, 5)
    ELSE IF position <= 10 THEN Rat(2, 5)
    ELSE RMax(RZero, RSub(Rat(7, 10), RMul(Rat(position, 1), Rat(1, 20))))

StopWords ==
    {<<"t", "h", "e">>, <<"a", "n", "d">>, <<"o", "f">>, <<"f", "o", "r">>, <<"a">>, <<"a", "n">>, <<"i", "n">>, <<"o", "n">>, <<"a", "t">>, <<"t", "o">>}

\* {word for word in text.split() if word not in stop_words and len(word) > 2}
ContentWords(text) == {word \in Range(SplitWs(text)) : word \notin StopWords /\ Len(word) > 2}

\* the Jaccard similarity, with the boost for the whole name appearing in the title
Jaccard(company_words, title_words, name_in_title) ==
    IF company_words = {} THEN RZero
    ELSE IF name_in_title
    THEN RMin(ROne, RAdd(Rat(Cardinality(company_words \cap title_words),
                             Cardinality(company_words \cup title_words)),
                         Rat(3, 10)))
    ELSE Rat(Cardinality(company_words \cap title_words),
             Cardinality(company_words \cup title_words))

TitleMatchOn(company_name, title) ==
    Jaccard(ContentWords(company_name), ContentWords(title), Contains(title, company_name))

calculate_title_match(company, result) ==
    IF result.title = <<>> THEN RZero
    ELSE TitleMatchOn(StrLower(NonWordToSpace(company.company_name)),
                      StrLower(NonWordToSpace(result.title)))

\* the nearest whole number to n / d, a tie going to the even one
RoundHalfEven(n, d) ==
    IF 2 * (n % d) > d THEN (n \div d) + 1
    ELSE IF 2 * (n % d) < d THEN n \div d
    ELSE IF (n \div d) % 2 = 0 THEN n \div d
    ELSE (n \div d) + 1

\* round(x, 2)
Round2(x) == Rat(RoundHalfEven(x.n * 100, x.d), 100)

WeightedSum(weights, details) ==
    RAdd(RAdd(RMul(details.domain_match, weights.domain_match),
              RMul(details.tld_relevance, weights.tld_relevance)),
         RAdd(RMul(details.search_position, weights.search_position),
              RMul(details.title_match, weights.title_match)))

\* the scorer and the return value once the four sub-scores are known
Scored(self, details) ==
    [raised |-> FALSE,
     scorer |-> [self EXCEPT !.last = Some(details)],
     ret |-> Round2(RMul(WeightedSum(self.weights, details), Rat(100, 1)))]

ScoreAfterDomain(self, company, result, domain_score) ==
    IF domain_score.raised
    THEN [raised |-> TRUE, scorer |-> self, ret |-> RZero]
    ELSE Scored(self,
                [domain_match |-> domain_score.value,
                 tld_relevance |-> calculate_tld_relevance(result, company),
                 search_position |-> calculate_position_score(result.position),
                 title_match |-> calculate_title_match(company, result)])

\* [raised, scorer, ret]; order is the iteration order of the company's word set
calculate_score(self, company, result, order) ==
    ScoreAfterDomain(self, company, result, calculate_domain_match(company, result, order))

NoDetails ==
    [domain_match |-> RZero, tld_relevance |-> RZero,
     search_position |-> RZero, title_match |-> RZero]

\* getattr(self, '_last_..._score', 0.0) for each of the four
get_scoring_details(self) == IF self.last = None THEN NoDetails ELSE self.last[1]


-----------------------------------------------------------------------------
(* Inputs                                                                  *)

\* the dataclass src.search.client.SearchResult
SearchResult(url, title, snippet, position) ==
    [url |-> url, title |-> title, snippet |-> snippet, position |-> position]

UrlAggWww == <<"h", "t", "t", "p", "s", ":", "/", "/", "w", "w", "w", ".", "a", "g", "g", ".", "c", "o", "m", "/", "c">>
UrlAggPort == <<"h", "t", "t", "p", ":", "/", "/", "a", "g", "g", ".", "c", "o", "m", ":", "8", "0">>
UrlAggApi == <<"h", "t", "t", "p", "s", ":", "/", "/", "a", "p", "i", ".", "a", "g", "g", ".", "c", "o", "m">>
UrlAggUpper == <<"h", "t", "t", "p", "s", ":", "/", "/", "A", "G", "G", ".", "c", "o", "m">>
UrlOwn == <<"h", "t", "t", "p", "s", ":", "/", "/", "o", "w", "n", ".", "u", "k">>
UrlNotAUrl == <<"n", "o", "t", "-", "a", "-", "u", "r", "l">>

DomAgg == <<"a", "g", "g", ".", "c", "o", "m">>
DomOwn == <<"o", "w", "n", ".", "u", "k">>

Hit(url, position) == SearchResult(url, <<>>, <<>>, position)

CompanyNames == {"Company A", "Company B"}

\* the result lists of one search that the tracker is given
SearchLists ==
    { <<>>,
      <<Hit(UrlAggWww, 1)>>,
      <<Hit(UrlAggWww, 1), Hit(UrlAggPort, 2)>>,
      <<Hit(UrlAggPort, 1), Hit(UrlOwn, 2)>>,
      <<Hit(UrlOwn, 1)>>,
      <<Hit(UrlNotAUrl, 1)>> }

\* the result lists of one search that the combined filter is given
FilterLists ==
    { <<>>,
      <<Hit(UrlAggWww, 1), Hit(UrlOwn, 2)>>,
      <<Hit(UrlAggApi, 1), Hit(UrlAggUpper, 2)>>,
      <<Hit(UrlOwn, 1), Hit(UrlOwn, 2)>>,
      <<Hit(UrlNotAUrl, 1), Hit(UrlAggPort, 2)>> }

StaticBlocklists == { <<>>, <<DomAgg>> }

Thresholds == {Rat(0, 1), Rat(1, 10), Rat(3, 10), Rat(1, 2), Rat(1, 1)}
MinOccurrences == 0..4
MinSuspicions == {Rat(0, 1), Rat(1, 10), Rat(1, 2)}

\* the dataclass src.core.models.Company
Company(company_number, company_name, postcode) ==
    [company_number |-> company_number, company_name |-> company_name, postcode |-> postcode]

CoAcme == Company("00000001", <<"A", "c", "m", "e", " ", "L", "t", "d">>, <<"S", "W", "1", "A", " ", "1", "A", "A">>)
CoAcmeSoftware == Company("00000002", <<"A", "C", "M", "E", " ", "S", "O", "F", "T", "W", "A", "R", "E", " ", "L", "I", "M", "I", "T", "E", "D">>, <<"m", "1", " ", "1", "a", "e", " ">>)
CoAbg == Company("00000003", <<"A", "l", "p", "h", "a", " ", "B", "e", "t", "a", " ", "G", "a", "m", "m", "a">>, <<"9", "0", "2", "1", "0">>)
CoEmpty == Company("00000004", <<>>, <<>>)
CoUnderscore == Company("00000005", <<"_">>, <<>>)
Companies == {CoAcme, CoAcmeSoftware, CoAbg, CoEmpty, CoUnderscore}

UrlEmpty == <<>>
UrlBadBracket == <<"h", "t", "t", "p", ":", "/", "/", "[", "b", "a", "d">>
UrlAcmeUk == <<"h", "t", "t", "p", "s", ":", "/", "/", "a", "c", "m", "e", ".", "c", "o", ".", "u", "k">>
UrlAcmeSoftware == <<"h", "t", "t", "p", "s", ":", "/", "/", "w", "w", "w", ".", "a", "c", "m", "e", "s", "o", "f", "t", "w", "a", "r", "e", ".", "c", "o", ".", "u", "k", "/", "a", "b", "o", "u", "t">>
UrlAcmeHyphen == <<"h", "t", "t", "p", "s", ":", "/", "/", "a", "c", "m", "e", "-", "s", "o", "f", "t", "w", "a", "r", "e", ".", "c", "o", "m">>
UrlShopAcme == <<"h", "t", "t", "p", "s", ":", "/", "/", "s", "h", "o", "p", ".", "a", "c", "m", "e", ".", "i", "n">>
UrlBg == <<"h", "t", "t", "p", "s", ":", "/", "/", "b", "g", ".", "i", "o">>
UrlAlfa == <<"h", "t", "t", "p", "s", ":", "/", "/", "a", "l", "p", "i", "n", "e", ".", "d", "e", "/", "x">>

TitleAcme == <<"A", "c", "m", "e", " ", "L", "t", "d">>
TitleAbg == <<"T", "h", "e", " ", "A", "l", "p", "h", "a", " ", "B", "e", "t", "a", " ", "G", "a", "m", "m", "a", " ", "o", "f", " ", "D", "a", "t", "a", " ", "-", " ", "H", "o", "m", "e">>

CandidateLists ==
    { <<SearchResult(UrlAcmeUk, TitleAcme, <<>>, 1),
        SearchResult(UrlAcmeHyphen, <<>>, <<>>, 2),
        SearchResult(UrlNotAUrl, <<>>, <<>>, 0)>>,
      <<SearchResult(UrlEmpty, TitleAcme, <<>>, 4),
        SearchResult(UrlBadBracket, TitleAbg, <<>>, 7),
        SearchResult(UrlAcmeSoftware, <<>>, <<>>, 11)>>,
      <<SearchResult(UrlShopAcme, TitleAbg, <<>>, 14),
        SearchResult(UrlBg, TitleAbg, <<>>, 20),
        SearchResult(UrlAggWww, TitleAcme, <<>>, 1)>>,
      <<SearchResult(UrlNotAUrl, TitleAcme, <<>>, 1),
        SearchResult(UrlAlfa, <<>>, <<>>, 3),
        SearchResult(UrlAcmeSoftware, TitleAbg, <<>>, 12)>> }

Weights(domain_match, tld_relevance, search_position, title_match) ==
    [domain_match |-> domain_match, tld_relevance |-> tld_relevance,
     search_position |-> search_position, title_match |-> title_match]

\* no weights, and non-negative weights of several sums
WeightConfigs ==
    { None,
      Some(Weights(Rat(1, 1), Rat(1, 1), Rat(1, 1), Rat(1, 1))),
      Some(Weights(Rat(0, 1), Rat(0, 1), Rat(0, 1), Rat(0, 1))),
      Some(Weights(Rat(2, 5), Rat(1, 5), Rat(3, 10), Rat(1, 10))),
      Some(Weights(Rat(3, 1), Rat(0, 1), Rat(0, 1), Rat(1, 1))),
      Some(Weights(Rat(1, 5), Rat(1, 5), Rat(1, 20), Rat(1, 20))) }

DomBlocked == <<"b", "l", "o", "c", "k", "e", "d", ".", "c", "o", ".", "u", "k">>
UrlBlocked == <<"h", "t", "t", "p", "s", ":", "/", "/", "b", "l", "o", "c", "k", "e", "d", ".", "c", "o", ".", "u", "k">>
UrlBlockedUpper == <<"h", "t", "t", "p", "s", ":", "/", "/", "B", "L", "O", "C", "K", "E", "D", ".", "C", "O", ".", "U", "K", "/", "x">>
UrlWwwBlocked == <<"h", "t", "t", "p", "s", ":", "/", "/", "w", "w", "w", ".", "b", "l", "o", "c", "k", "e", "d", ".", "c", "o", ".", "u", "k", "/", "x">>
UrlApiBlocked == <<"h", "t", "t", "p", "s", ":", "/", "/", "a", "p", "i", ".", "b", "l", "o", "c", "k", "e", "d", ".", "c", "o", ".", "u", "k">>
UrlApiBlockedUpper == <<"H", "T", "T", "P", "S", ":", "/", "/", "A", "P", "I", ".", "B", "L", "O", "C", "K", "E", "D", ".", "C", "O", ".", "U", "K">>
UrlNotBlocked == <<"h", "t", "t", "p", "s", ":", "/", "/", "n", "o", "t", "b", "l", "o", "c", "k", "e", "d", ".", "c", "o", ".", "u", "k">>
UrlBlockedPort == <<"h", "t", "t", "p", "s", ":", "/", "/", "b", "l", "o", "c", "k", "e", "d", ".", "c", "o", ".", "u", "k", ":", "8", "0", "8", "0">>
UrlBlockedNoScheme == <<"b", "l", "o", "c", "k", "e", "d", ".", "c", "o", ".", "u", "k", "/", "a", "b", "o", "u", "t">>

\* the lists a BlocklistFilter is built from
RawBlocklists ==
    { <<>>,
      <<DomBlocked>>,
      <<<<"B", "L", "O", "C", "K", "E", "D", ".", "C", "O", ".", "U", "K">>>>,
      <<<<" ", "B", "l", "o", "c", "k", "e", "d", ".", "c", "o", ".", "u", "k", " ">>, <<" ", " ">>>>,
      <<DomAgg, DomBlocked>>,
      <<DomOwn>> }

BlocklistUrls ==
    { UrlEmpty, UrlNotAUrl, UrlBadBracket, UrlBlockedNoScheme, UrlBlocked, UrlBlockedUpper,
      UrlWwwBlocked, UrlApiBlocked, UrlApiBlockedUpper, UrlNotBlocked, UrlBlockedPort,
      UrlAggWww, UrlOwn }

\* the result lists a BlocklistFilter is given: up to two results
BlocklistResults ==
    {Hit(url, 1) : url \in {UrlNotAUrl, UrlBadBracket, UrlWwwBlocked, UrlApiBlockedUpper,
                            UrlNotBlocked, UrlOwn}}
BlocklistLists ==
    {<<>>} \cup {<<r>> : r \in BlocklistResults}
           \cup {<<r1, r2>> : r1 \in BlocklistResults, r2 \in BlocklistResults}

\* URLs put together from a scheme, a www. prefix, a host, a port and a path
UrlSchemes == {<<>>, <<"h", "t", "t", "p", ":", "/", "/">>, <<"H", "T", "T", "P", "S", ":", "/", "/">>}
UrlPrefixes == {<<>>, Www, <<"W", "W", "W", ".">>}
UrlHosts == {DomAgg, <<"A", "G", "G", ".", "c", "o", "m">>, DomOwn}
UrlPorts == {<<>>, <<":", "8", "0">>}
UrlPaths == {<<>>, <<"/", "c">>}
BuiltUrls ==
    {scheme \o prefix \o host \o port \o path :
        scheme \in UrlSchemes, prefix \in UrlPrefixes, host \in UrlHosts,
        port \in UrlPorts, path \in UrlPaths}
NormalizerUrls == BuiltUrls \cup {UrlEmpty, UrlNotAUrl, UrlBadBracket}

MaxSearches == 3
MaxSightings == 3

-----------------------------------------------------------------------------
(* State                                                                   *)

NoCall == [op |-> "none"]
IdleMirror == [pc |-> "idle", company |-> "", pending |-> <<>>]
\* no pipeline running
NoRun == [pipeline |-> "none", min_confidence |-> RZero, written |-> <<>>]

\* no workers
NoPool == [given |-> <<>>, config |-> <<>>, company |-> CoEmpty, workers |-> <<>>]

\* no search client
NoClient == [pc |-> "none"]

\* a database file in which no checkpoints table has been used: no rows, no row ids
\* given out, and nothing recorded
EmptyDb == [rows |-> <<>>, last_id |-> 0, recorded |-> {}]

NoJob == [company |-> CoEmpty, results |-> <<>>, done |-> 0]

Init ==
    /\ tracker = NewTracker
    /\ new_tracker = NewTracker
    /\ cache = EmptyCache
    /\ cache_file = NoFile
    /\ filt = [static_blocklist |-> <<>>]
    /\ call = NoCall
    /\ hits = EmptyBag
    /\ calls = 0
    /\ dup = FALSE
    /\ mirror = IdleMirror
    /\ bfilter = BlocklistFilter(<<>>)
    /\ run = NoRun
    /\ pool = NoPool
    /\ client = NoClient
    /\ db = EmptyDb
    /\ scorer = ConfidenceScorer(None)
    /\ job = NoJob

\* the domains of a result list, one per result
Domains(results) == [i \in 1..Len(results) |-> extract_domain(results[i].url).value]

RECURSIVE BagOfPairs(_, _)
BagOfPairs(domains, company_name) ==
    IF domains = <<>> THEN EmptyBag
    ELSE SetToBag({<<Head(domains), company_name>>})
            (+) BagOfPairs(Tail(domains), company_name)

HasDuplicate(seq) == \E i, j \in 1..Len(seq) : i # j /\ seq[i] = seq[j]

nonTracker == <<new_tracker, cache, cache_file, filt, mirror, scorer, job, bfilter, run, pool, client, db>>

\* tracker.track_search_results(company_name, search_results)
Track(company_name, search_results) ==
    /\ tracker.total_searches < MaxSearches
    /\ tracker' = track_search_results(tracker, company_name, search_results).tr
    /\ hits' = hits (+) BagOfPairs(Domains(search_results), company_name)
    /\ calls' = calls + 1
    /\ dup' = (dup \/ HasDuplicate(Domains(search_results)))
    /\ call' = [op |-> "track_search_results"]
    /\ UNCHANGED nonTracker

\* tracker.reset()
Reset ==
    /\ tracker' = reset(tracker)
    /\ hits' = EmptyBag
    /\ calls' = 0
    /\ dup' = FALSE
    /\ call' = [op |-> "reset"]
    /\ UNCHANGED nonTracker

NextTracker ==
    \/ \E company_name \in CompanyNames, search_results \in SearchLists :
          Track(company_name, search_results)
    \/ Reset

\* a tracker driven by track_search_results and reset alone
SpecTracker == Init /\ [][NextTracker]_vars

-----------------------------------------------------------------------------
(* Claims about the tracker                                                *)

Seen == DOMAIN tracker.domain_counts

\* C3: once a search has been tracked, a tracked domain is an aggregator for
\* (threshold, min_occurrences) exactly when its count is at least
\* min_occurrences and count / total_searches is at least threshold; before
\* any search the set is empty.
C3_AggregatorIff ==
    \A threshold \in Thresholds, min_occurrences \in MinOccurrences :
        LET found == identify_aggregators(tracker, threshold, min_occurrences)
        IN  /\ found \subseteq Seen
            /\ tracker.total_searches = 0 => found = {}
            /\ tracker.total_searches > 0 =>
                 \A d \in Seen :
                    d \in found <=>
                        /\ tracker.domain_counts[d] >= min_occurrences
                        /\ tracker.domain_counts[d] * threshold.d
                              >= threshold.n * tracker.total_searches

C3_Witness ==
    /\ tracker.total_searches = 3
    /\ DomAgg \in identify_aggregators(tracker, Rat(1, 1), 3)
    /\ DomOwn \in Seen
    /\ DomOwn \notin identify_aggregators(tracker, Rat(1, 2), 1)
    /\ DomOwn \in identify_aggregators(tracker, Rat(3, 10), 1)

\* C4 as stated: every domain's count is at most total_searches, so that
\* every frequency is at most 1.
C4_CountAtMostSearches ==
    \A d \in Seen : tracker.domain_counts[d] <= tracker.total_searches

\* C4 amended: the bound holds as long as no single call held two results
\* of the same normalized domain.
C4_CountAtMostSearchesNoRepeat ==
    ~dup => \A d \in Seen :
               /\ tracker.domain_counts[d] <= tracker.total_searches
               /\ RLe(Frequency(tracker.domain_counts[d], tracker.total_searches), ROne)

C4_Witness ==
    /\ ~dup
    /\ tracker.total_searches = 3
    /\ DomAgg \in Seen
    /\ tracker.domain_counts[DomAgg] = 3
    /\ DomOwn \in Seen
    /\ tracker.domain_counts[DomOwn] = 1

RECURSIVE SumCopies(_, _)
SumCopies(d, companies) ==
    IF companies = {} THEN 0
    ELSE LET c == CHOOSE x \in companies : TRUE
         IN  CopiesIn(<<d, c>>, hits) + SumCopies(d, companies \ {c})

\* C9: total_searches is the number of track calls since the last reset, a
\* domain's count the number of candidates tracked with that domain since
\* then (one per candidate), its company set the companies tracked with it;
\* reset leaves all three empty or zero.
C9_TrackerMatchesHistory ==
    /\ tracker.total_searches = calls
    /\ Seen = {pair[1] : pair \in BagToSet(hits)}
    /\ DOMAIN tracker.company_domains = Seen
    /\ \A d \in Seen :
          /\ tracker.domain_counts[d] = SumCopies(d, CompanyNames)
          /\ tracker.company_domains[d] = {c \in CompanyNames : BagIn(<<d, c>>, hits)}
    /\ call.op = "reset" =>
          /\ tracker.total_searches = 0
          /\ tracker.domain_counts = EmptyDict
          /\ tracker.company_domains = EmptyDict

C9_Witness ==
    /\ dup
    /\ calls = 3
    /\ DomAgg \in Seen
    /\ tracker.domain_counts[DomAgg] = 4
    /\ tracker.company_domains[DomAgg] = {"Company A"}
    /\ <<>> \in Seen

-----------------------------------------------------------------------------
(* The combined filter                                                     *)

InitFilter ==
    /\ tracker = NewTracker
    /\ new_tracker = NewTracker
    /\ cache = EmptyCache
    /\ cache_file = NoFile
    /\ filt \in {[static_blocklist |-> b] : b \in StaticBlocklists}
    /\ call = NoCall
    /\ hits = EmptyBag
    /\ calls = 0
    /\ dup = FALSE
    /\ mirror = IdleMirror
    /\ bfilter = BlocklistFilter(<<>>)
    /\ run = NoRun
    /\ pool = NoPool
    /\ client = NoClient
    /\ db = EmptyDb
    /\ scorer = ConfidenceScorer(None)
    /\ job = NoJob

\* the state after a filter_results call: tracked are the results it tracked
FilterDone(company_name, results, out, tracked) ==
    /\ tracker' = out.tr
    /\ call' = [op |-> "filter_results", company_name |-> company_name,
                results |-> results, raised |-> out.raised, ret |-> out.ret]
    /\ hits' = hits (+) BagOfPairs(Domains(tracked), company_name)
    /\ calls' = calls + 1
    /\ dup' = (dup \/ HasDuplicate(Domains(tracked)))

\* EnhancedBlocklistFilter(static_blocklist, tracker).filter_results(results, company_name)
FilterResults(company_name, results) ==
    /\ tracker.total_searches < MaxSearches
    /\ FilterDone(company_name, results,
                  filter_results(filt.static_blocklist, tracker, results, company_name),
                  apply_static_filter(filt.static_blocklist, results).ret)
    /\ UNCHANGED nonTracker

NextFilter ==
    \E company_name \in CompanyNames, results \in FilterLists :
        FilterResults(company_name, results)

\* one combined filter, with either static blocklist, given one search after another
SpecFilter == InitFilter /\ [][NextFilter]_vars

DomainOf(result) == extract_domain(result.url).value

\* C5: a filter_results call adds one search; the counts grow by the results
\* that the static list let through, and by nothing else; what is returned
\* is those results without the aggregators found after this call's tracking.
C5_StaticTrackDynamic ==
    [][call'.op = "filter_results" =>
        LET survivors ==
                SelectSeq(call'.results,
                          LAMBDA r : DomainOf(r) \notin Range(filt.static_blocklist))
            aggregators ==
                identify_aggregators(tracker', DefaultThreshold, DefaultMinOccurrences)
        IN  /\ tracker'.total_searches = tracker.total_searches + 1
            /\ DOMAIN tracker'.domain_counts =
                  DOMAIN tracker.domain_counts \cup Range(Domains(survivors))
            /\ \A d \in DOMAIN tracker'.domain_counts :
                  tracker'.domain_counts[d] =
                      DictGet(tracker.domain_counts, d, 0)
                        + Cardinality({i \in 1..Len(survivors) : DomainOf(survivors[i]) = d})
            /\ call'.ret = SelectSeq(survivors, LAMBDA r : DomainOf(r) \notin aggregators)
    ]_vars

\* a call in which the static list drops one result and the tracker another
C5_Witness ==
    /\ call.op = "filter_results"
    /\ filt.static_blocklist = <<DomAgg>>
    /\ call.results = <<Hit(UrlAggWww, 1), Hit(UrlOwn, 2)>>
    /\ call.ret = <<>>
    /\ DomAgg \notin Seen
    /\ tracker.domain_counts[DomOwn] = 3

\* C6: the static pass keeps the results that BlocklistFilter keeps for the
\* same blocklist.
C6_StaticPassIsBlocklistFilter ==
    call.op = "filter_results" =>
        apply_static_filter(filt.static_blocklist, call.results).ret
          = blocklist_filter_results(NormalizeBlocklist(filt.static_blocklist), call.results)

\* C7: every suspected aggregator has a frequency in [min_suspicion, 0.3),
\* and the report is ordered by non-increasing frequency.
C7_SuspectedBand ==
    \A min_suspicion \in MinSuspicions, order \in Orders(Seen) :
        LET out == get_suspected_aggregators(filt.static_blocklist, tracker,
                                             min_suspicion, order)
        IN  ~out.raised =>
              /\ \A i \in 1..Len(out.ret) :
                    /\ RGe(out.ret[i].frequency, min_suspicion)
                    /\ RLt(out.ret[i].frequency, DefaultThreshold)
              /\ \A i \in 1..(Len(out.ret) - 1) :
                    RGe(out.ret[i].frequency, out.ret[i + 1].frequency)

-----------------------------------------------------------------------------
(* The persistence layer, used freely                                      *)

SightingDomains == {DomAgg, DomOwn}

RECURSIVE SumCounts(_, _)
SumCounts(counts, keys) ==
    IF keys = {} THEN 0
    ELSE LET k == CHOOSE x \in keys : TRUE
         IN  counts[k] + SumCounts(counts, keys \ {k})

nonCache == <<tracker, new_tracker, filt, hits, calls, dup, mirror, scorer, job, bfilter, run, pool, client, db>>

\* persistence.update_cache(domain, company_name)
UpdateCache(domain, company_name) ==
    /\ SumCounts(cache.domain_counts, DOMAIN cache.domain_counts) < MaxSightings
    /\ cache' = update_cache(cache, domain, company_name)
    /\ cache_file' = save_cache(cache')
    /\ call' = [op |-> "update_cache"]
    /\ UNCHANGED nonCache

\* persistence.increment_search_count()
IncrementSearchCount ==
    /\ cache.total_searches < MaxSearches
    /\ cache' = increment_search_count(cache)
    /\ cache_file' = save_cache(cache')
    /\ call' = [op |-> "increment_search_count"]
    /\ UNCHANGED nonCache

\* persistence.clear_cache()
ClearCache ==
    /\ cache' = EmptyCache
    /\ cache_file' = save_cache(cache')
    /\ call' = [op |-> "clear_cache"]
    /\ UNCHANGED nonCache

\* persistence.load_into_tracker(tracker)
LoadIntoTracker ==
    /\ tracker' = load_into_tracker(cache)
    /\ call' = [op |-> "load_into_tracker"]
    /\ UNCHANGED <<new_tracker, cache, cache_file, filt, hits, calls, dup, mirror, scorer, job, bfilter, run, pool, client, db>>

\* tracker.reset(), in a run where the history of track calls is not kept
ResetLoaded ==
    /\ tracker' = reset(tracker)
    /\ call' = [op |-> "reset"]
    /\ UNCHANGED <<new_tracker, cache, cache_file, filt, hits, calls, dup, mirror, scorer, job, bfilter, run, pool, client, db>>

NextPersist ==
    \/ \E domain \in SightingDomains, company_name \in CompanyNames :
          UpdateCache(domain, company_name)
    \/ IncrementSearchCount
    \/ ClearCache
    \/ LoadIntoTracker
    \/ ResetLoaded

\* the cache's operations in any order, and a tracker loaded from it
SpecPersist == Init /\ [][NextPersist]_vars

\* C8: with total_searches = 0 every report completes and gives frequency 0.
C8_ZeroSearchesZeroFrequency ==
    tracker.total_searches = 0 =>
        /\ \A d \in Seen \cup SightingDomains :
              get_domain_stats(tracker, d).frequency = RZero
        /\ get_summary(tracker).average_domains_per_search = RZero
        /\ \A threshold \in Thresholds, min_occurrences \in MinOccurrences :
              identify_aggregators(tracker, threshold, min_occurrences) = {}
        /\ \A min_suspicion \in MinSuspicions, order \in Orders(Seen) :
              LET out == get_suspected_aggregators(filt.static_blocklist, tracker,
                                                   min_suspicion, order)
              IN  /\ ~out.raised
                  /\ \A i \in 1..Len(out.ret) : out.ret[i].frequency = RZero

-----------------------------------------------------------------------------
(* Searches mirrored into the cache                                        *)

\* track one search on the tracker and start mirroring it
MirrorTrack(company_name, search_results) ==
    /\ mirror.pc = "idle"
    /\ tracker.total_searches < MaxSearches
    /\ tracker' = track_search_results(tracker, company_name, search_results).tr
    /\ hits' = hits (+) BagOfPairs(Domains(search_results), company_name)
    /\ calls' = calls + 1
    /\ dup' = (dup \/ HasDuplicate(Domains(search_results)))
    /\ mirror' = [pc |-> "count", company |-> company_name, pending |-> search_results]
    /\ call' = [op |-> "track_search_results"]
    /\ UNCHANGED <<new_tracker, cache, cache_file, filt, scorer, job, bfilter, run, pool, client, db>>

\* persistence.increment_search_count(), once for the search
MirrorCount ==
    /\ mirror.pc = "count"
    /\ cache' = increment_search_count(cache)
    /\ cache_file' = save_cache(cache')
    /\ mirror' = [mirror EXCEPT !.pc = IF mirror.pending = <<>> THEN "idle" ELSE "update"]
    /\ call' = [op |-> "increment_search_count"]
    /\ UNCHANGED <<tracker, new_tracker, filt, hits, calls, dup, scorer, job, bfilter, run, pool, client, db>>

\* persistence.update_cache(tracker._extract_domain(result.url), company), for the next result
MirrorUpdate ==
    /\ mirror.pc = "update"
    /\ cache' = update_cache(cache, DomainOf(Head(mirror.pending)), mirror.company)
    /\ cache_file' = save_cache(cache')
    /\ mirror' = [mirror EXCEPT !.pending = Tail(mirror.pending),
                                !.pc = IF Len(mirror.pending) = 1 THEN "idle" ELSE "update"]
    /\ call' = [op |-> "update_cache"]
    /\ UNCHANGED <<tracker, new_tracker, filt, hits, calls, dup, scorer, job, bfilter, run, pool, client, db>>

\* DomainCachePersistence(cache_file): a new object reads the file
Reopen ==
    /\ mirror.pc = "idle"
    /\ call.op \notin {"DomainCachePersistence", "load_into_tracker"}
    /\ cache' = load_cache(cache_file)
    /\ call' = [op |-> "DomainCachePersistence"]
    /\ UNCHANGED <<tracker, new_tracker, cache_file, filt, hits, calls, dup, mirror, scorer, job, bfilter, run, pool, client, db>>

\* persistence.load_into_tracker(new_tracker)
MirrorLoad ==
    /\ mirror.pc = "idle"
    /\ new_tracker' = load_into_tracker(cache)
    /\ call' = [op |-> "load_into_tracker"]
    /\ UNCHANGED <<tracker, cache, cache_file, filt, hits, calls, dup, mirror, scorer, job, bfilter, run, pool, client, db>>

NextMirror ==
    \/ \E company_name \in CompanyNames, search_results \in SearchLists :
          MirrorTrack(company_name, search_results)
    \/ MirrorCount
    \/ MirrorUpdate
    \/ Reopen
    \/ MirrorLoad

\* every search tracked and mirrored into the cache, the cache then loaded
SpecMirror == Init /\ [][NextMirror]_vars

\* C10: a tracker loaded from the mirrored cache has the counts, company
\* sets and total of the tracker that tracked the searches directly, and
\* names the same aggregators for every threshold and min_occurrences.
C10_LoadedEqualsTracked ==
    call.op = "load_into_tracker" =>
        /\ new_tracker.domain_counts = tracker.domain_counts
        /\ new_tracker.company_domains = tracker.company_domains
        /\ new_tracker.total_searches = tracker.total_searches
        /\ \A threshold \in Thresholds, min_occurrences \in MinOccurrences :
              identify_aggregators(new_tracker, threshold, min_occurrences)
                = identify_aggregators(tracker, threshold, min_occurrences)

C10_Witness ==
    /\ call.op = "load_into_tracker"
    /\ dup
    /\ new_tracker.total_searches = 3
    /\ DomAgg \in DOMAIN new_tracker.domain_counts
    /\ new_tracker.company_domains[DomAgg] = {"Company A", "Company B"}
    /\ identify_aggregators(new_tracker, DefaultThreshold, DefaultMinOccurrences) = {DomAgg}
    /\ cache_file.exists

-----------------------------------------------------------------------------
(* Scoring the candidates of a company                                     *)

nonScorer == <<tracker, new_tracker, cache, cache_file, filt, hits, calls, dup, mirror, bfilter, run, pool, client, db>>

\* a scorer built from any of the weight configurations, and a company with its candidates
InitScorer ==
    /\ tracker = NewTracker
    /\ new_tracker = NewTracker
    /\ cache = EmptyCache
    /\ cache_file = NoFile
    /\ filt = [static_blocklist |-> <<>>]
    /\ call = NoCall
    /\ hits = EmptyBag
    /\ calls = 0
    /\ dup = FALSE
    /\ mirror = IdleMirror
    /\ bfilter = BlocklistFilter(<<>>)
    /\ run = NoRun
    /\ pool = NoPool
    /\ client = NoClient
    /\ db = EmptyDb
    /\ scorer \in {ConfidenceScorer(weights) : weights \in WeightConfigs}
    /\ job \in {[company |-> company, results |-> results, done |-> 0] :
                    company \in Companies, results \in CandidateLists}

\* the state after a calculate_score call whose outcome is out
ScoreDone(company, result, out) ==
    /\ scorer' = out.scorer
    /\ call' = [op |-> "calculate_score", company |-> company, result |-> result,
                raised |-> out.raised, ret |-> out.ret]
    /\ job' = [job EXCEPT !.done = @ + 1]

\* scorer.calculate_score(company, result) for the next candidate of the company,
\* the company's word set being iterated in the given order
CalculateScore(order) ==
    /\ job.done < Len(job.results)
    /\ ScoreDone(job.company, job.results[job.done + 1],
                 calculate_score(scorer, job.company, job.results[job.done + 1], order))
    /\ UNCHANGED nonScorer

\* scorer.get_scoring_details()
GetScoringDetails ==
    /\ call' = [op |-> "get_scoring_details", ret |-> get_scoring_details(scorer)]
    /\ UNCHANGED scorerVars
    /\ UNCHANGED nonScorer

NextScorer ==
    \/ \E order \in Orders(CompanyWords(job.company.company_name)) : CalculateScore(order)
    \/ GetScoringDetails

SpecScorer == InitScorer /\ [][NextScorer]_vars

\* C1: whatever the weights the scorer was built with, and whatever the company and
\* the candidate (empty or malformed URL, empty title, position 0 included),
\* calculate_score returns, and returns a score between 0 and 100
C1_ScoreInRange ==
    call.op = "calculate_score" =>
        /\ ~call.raised
        /\ RLe(RZero, call.ret)
        /\ RLe(call.ret, Rat(100, 1))

\* a malformed URL, an empty title and position 0, scored with weights other than
\* the default ones, and scored above zero
C1_Witness ==
    /\ call.op = "calculate_score"
    /\ call.result.url = UrlNotAUrl
    /\ call.result.title = <<>>
    /\ call.result.position = 0
    /\ scorer.weights # DefaultWeights
    /\ ~call.raised
    /\ RGt(call.ret, RZero)

\* the URL cannot be parsed or has an empty network location
NoNetworkLocation(url) == urlparse(url).raised \/ urlparse(url).netloc = <<>>

\* C2: after calculate_score on a candidate whose URL is malformed or has no
\* network location, the call has not raised and the breakdown holds 0.0 for
\* domain_match and for tld_relevance; after calculate_score on a candidate with an
\* empty title the breakdown holds 0.0 for title_match
C2_MalformedUrlZeroSubScores ==
    call.op = "calculate_score" =>
        /\ NoNetworkLocation(call.result.url) =>
              /\ ~call.raised
              /\ get_scoring_details(scorer).domain_match = RZero
              /\ get_scoring_details(scorer).tld_relevance = RZero
        /\ call.result.title = <<>> =>
              /\ ~call.raised
              /\ get_scoring_details(scorer).title_match = RZero

-----------------------------------------------------------------------------
(* Further properties of the tracker                                       *)

\* C11: for a fixed min_occurrences, the aggregators found at a threshold are
\* among the aggregators found at any lower threshold
C11_ThresholdMonotone ==
    \A t1 \in Thresholds, t2 \in Thresholds, min_occurrences \in MinOccurrences :
        RLe(t1, t2) =>
            identify_aggregators(tracker, t2, min_occurrences)
                \subseteq identify_aggregators(tracker, t1, min_occurrences)

\* lowering the threshold from 1/2 to 1/10 adds a domain to a non-empty set
C11_Witness ==
    /\ identify_aggregators(tracker, Rat(1, 2), 1) # {}
    /\ identify_aggregators(tracker, Rat(1, 2), 1)
          # identify_aggregators(tracker, Rat(1, 10), 1)
    /\ DomOwn \in identify_aggregators(tracker, Rat(1, 10), 1)

-----------------------------------------------------------------------------
(* The static blocklist filter                                             *)

nonBlocklist ==
    <<tracker, new_tracker, cache, cache_file, filt, hits, calls, dup, mirror, scorer, job, run, pool, client, db>>

\* a BlocklistFilter built from any of the raw lists
InitBlocklist ==
    /\ tracker = NewTracker
    /\ new_tracker = NewTracker
    /\ cache = EmptyCache
    /\ cache_file = NoFile
    /\ filt = [static_blocklist |-> <<>>]
    /\ call = NoCall
    /\ hits = EmptyBag
    /\ calls = 0
    /\ dup = FALSE
    /\ mirror = IdleMirror
    /\ bfilter \in {BlocklistFilter(blocklist) : blocklist \in RawBlocklists}
    /\ run = NoRun
    /\ pool = NoPool
    /\ client = NoClient
    /\ db = EmptyDb
    /\ scorer = ConfidenceScorer(None)
    /\ job = NoJob

\* bfilter._is_blocked(url)
IsBlocked(url) ==
    /\ call' = [op |-> "is_blocked", url |-> url, ret |-> is_blocked(bfilter.blocklist, url)]
    /\ UNCHANGED bfilter
    /\ UNCHANGED nonBlocklist

\* bfilter.filter_results(results)
BlocklistFilterResults(results) ==
    /\ call' = [op |-> "blocklist_filter_results", results |-> results,
                ret |-> blocklist_filter_results(bfilter.blocklist, results)]
    /\ UNCHANGED bfilter
    /\ UNCHANGED nonBlocklist

\* bfilter.update_blocklist(new_blocklist)
UpdateBlocklist(new_blocklist) ==
    /\ bfilter' = BlocklistFilter(new_blocklist)
    /\ call' = [op |-> "update_blocklist", new_blocklist |-> new_blocklist]
    /\ UNCHANGED nonBlocklist

NextBlocklist ==
    \/ \E url \in BlocklistUrls : IsBlocked(url)
    \/ \E results \in BlocklistLists : BlocklistFilterResults(results)
    \/ \E new_blocklist \in RawBlocklists : UpdateBlocklist(new_blocklist)

SpecBlocklist == InitBlocklist /\ [][NextBlocklist]_vars

\* the network location of a URL, lower-cased and without a leading www.
LowerDomain(url) ==
    LET netloc == StrLower(urlparse(url).netloc)
    IN  IF StartsWith(netloc, Www) THEN SubSeq(netloc, 5, Len(netloc)) ELSE netloc

\* the entries of a raw list that are not blank, lower-cased and trimmed
Entries(raw) == {Strip(StrLower(raw[i])) : i \in {j \in 1..Len(raw) : Strip(raw[j]) # <<>>}}

UpperEntries(blocklist) == [i \in 1..Len(blocklist) |-> StrUpper(blocklist[i])]

\* C12: a URL is blocked exactly when its lower-cased domain without a leading
\* www. equals an entry of the filter or ends with "." and an entry; the entries
\* are those given at construction, lower-cased and trimmed; spelling the URL or
\* the entries in upper case changes nothing; api.blocked.co.uk is blocked by
\* blocked.co.uk and notblocked.co.uk is not
C12_BlockedIffDomainMatches ==
    /\ call.op = "update_blocklist" => Range(bfilter.blocklist) = Entries(call.new_blocklist)
    /\ call.op = "is_blocked" =>
        /\ call.ret <=>
              /\ call.url # <<>>
              /\ ~urlparse(call.url).raised
              /\ \E entry \in Range(bfilter.blocklist) :
                    \/ LowerDomain(call.url) = entry
                    \/ EndsWith(LowerDomain(call.url), <<".">> \o entry)
        /\ call.ret = is_blocked(bfilter.blocklist, StrUpper(call.url))
        /\ call.ret = is_blocked(bfilter.blocklist, StrLower(call.url))
        /\ call.ret = is_blocked(BlocklistFilter(UpperEntries(bfilter.blocklist)).blocklist,
                                 call.url)
        /\ (call.url = UrlApiBlocked /\ DomBlocked \in Range(bfilter.blocklist)) => call.ret
        /\ (call.url = UrlNotBlocked /\ bfilter.blocklist = <<DomBlocked>>) => ~call.ret

\* a subdomain URL spelled in upper case, blocked by the entry blocked.co.uk
C12_Witness ==
    /\ call.op = "is_blocked"
    /\ call.url = UrlApiBlockedUpper
    /\ bfilter.blocklist = <<DomBlocked>>
    /\ call.ret

\* a is b with some elements left out, the others in their order
RECURSIVE IsSubList(_, _)
IsSubList(a, b) ==
    IF a = <<>> THEN TRUE
    ELSE IF b = <<>> THEN FALSE
    ELSE IF Head(a) = Head(b) THEN IsSubList(Tail(a), Tail(b))
    ELSE IsSubList(a, Tail(b))

\* C13: filtering the output of filter_results again under the same blocklist
\* gives the same list; the output is a sub-list of the input in the input's
\* order; with an empty blocklist the output is the whole input
C13_FilterIdempotent ==
    call.op = "blocklist_filter_results" =>
        /\ blocklist_filter_results(bfilter.blocklist, call.ret) = call.ret
        /\ IsSubList(call.ret, call.results)
        /\ bfilter.blocklist = <<>> => call.ret = call.results

\* of two results the filter dropped the first and kept the second
C13_Witness ==
    /\ call.op = "blocklist_filter_results"
    /\ Len(call.results) = 2
    /\ call.ret = <<call.results[2]>>
    /\ call.results[1] # call.results[2]
    /\ is_blocked(bfilter.blocklist, call.results[1].url)

\* C14: a result whose URL is empty, or has no network location, or cannot be
\* parsed, is not blocked whatever the blocklist, and filter_results keeps it
C14_InvalidUrlNeverBlocked ==
    /\ (call.op = "is_blocked" /\ (call.url = <<>> \/ NoNetworkLocation(call.url)))
          => ~call.ret
    /\ call.op = "blocklist_filter_results" =>
          \A i \in 1..Len(call.results) :
              NoNetworkLocation(call.results[i].url) =>
                  \E j \in 1..Len(call.ret) : call.ret[j] = call.results[i]

\* a filter with entries kept a URL that cannot be parsed and dropped the other result
C14_Witness ==
    /\ call.op = "blocklist_filter_results"
    /\ bfilter.blocklist # <<>>
    /\ Len(call.results) = 2
    /\ call.results[1].url = UrlBadBracket
    /\ call.ret = <<call.results[1]>>

-----------------------------------------------------------------------------
(* URLQualityAnalyzer: the domain it analyses                              *)

\* _clean_domain(domain): without a leading www. and without a port
clean_domain(domain) ==
    SplitOn(IF StartsWith(domain, Www) THEN SubSeq(domain, 5, Len(domain)) ELSE domain,
            ":")[1]

\* the domain calculate_url_quality analyses: [raised, value], raised when urlparse raises
QualityDomainParsed(parsed) ==
    IF parsed.raised
    THEN [raised |-> TRUE, value |-> <<>>]
    ELSE [raised |-> FALSE, value |-> clean_domain(parsed.netloc)]

quality_domain(url) == QualityDomainParsed(urlparse(url))

-----------------------------------------------------------------------------
(* The three domain normalizers side by side                               *)

\* each component extracts the domain of the same URL
ExtractDomains(url) ==
    /\ call' = [op |-> "extract_domains", url |-> url,
                tracker_domain |-> extract_domain(url),
                blocklist_domain |-> blocklist_domain(url),
                quality_domain |-> quality_domain(url)]
    /\ UNCHANGED <<tracker, new_tracker, cache, cache_file, filt, hits, calls, dup, mirror,
                   scorer, job, bfilter, run, pool, client, db>>

NextNormalizer == \E url \in NormalizerUrls : ExtractDomains(url)

SpecNormalizer == Init /\ [][NextNormalizer]_vars

\* the network location lower-cased, without a leading www. and without a port;
\* the empty string for a URL that is empty or cannot be parsed
NormalizedDomain(url) ==
    IF url = <<>> \/ urlparse(url).raised THEN <<>>
    ELSE SplitOn(LowerDomain(url), ":")[1]

-----------------------------------------------------------------------------
(* Further properties of the scorer                                        *)

\* C16: the weights a constructed scorer holds sum to 1.0
C16_WeightsSumToOne == SumWeights(scorer.weights) = ROne

-----------------------------------------------------------------------------
(* process_companies: the two command-line pipelines                       *)

\* src.core.models.SearchResult(...): [raised, value], ValueError for a negative position
ModelSearchResult(url, title, snippet, position) ==
    [raised |-> position < 0, value |-> SearchResult(url, title, snippet, position)]

\* src.core.models.ScoredResult(...): [raised, value], ValueError for a score outside [0, 100]
ScoredResult(company, search_result, confidence_score, scoring_details, error_flag) ==
    [raised |-> ~(RLe(RZero, confidence_score) /\ RLe(confidence_score, Rat(100, 1))),
     value |-> [company |-> company, search_result |-> search_result,
                confidence_score |-> confidence_score,
                scoring_details |-> scoring_details, error_flag |-> error_flag]]

Raised(self) == [raised |-> TRUE, scorer |-> self, scored_results |-> <<>>]

\* commands.py: the loop over filtered_results; [raised, scorer, scored_results]
RECURSIVE CommandsLoop(_, _, _, _, _, _)
CommandsAppend(self, company, results, min_confidence, order, scored_results, search_result, scored_result) ==
    IF search_result.raised \/ scored_result.raised
    THEN Raised(self)
    ELSE CommandsLoop(self, company, Tail(results), min_confidence, order,
                      Append(scored_results, scored_result.value))

CommandsStep(out, company, results, min_confidence, order, scored_results) ==
    IF out.raised
    THEN Raised(out.scorer)
    ELSE IF RGe(out.ret, min_confidence)
    THEN CommandsAppend(out.scorer, company, results, min_confidence, order, scored_results,
             ModelSearchResult(Head(results).url, Head(results).title,
                               Head(results).snippet, Head(results).position),
             ScoredResult(company, Head(results), out.ret,
                          get_scoring_details(out.scorer), FALSE))
    ELSE CommandsLoop(out.scorer, company, Tail(results), min_confidence, order,
                      scored_results)

CommandsLoop(self, company, results, min_confidence, order, scored_results) ==
    IF results = <<>>
    THEN [raised |-> FALSE, scorer |-> self, scored_results |-> scored_results]
    ELSE CommandsStep(calculate_score(self, company, Head(results), order),
                      company, results, min_confidence, order, scored_results)

\* the error placeholder commands.py writes
CommandsErrorResult(company) ==
    ScoredResult(company, SearchResult(<<>>, <<>>, <<>>, 0), RZero, EmptyDict, TRUE).value

\* what commands.py writes for the company
CommandsWritten(out, company) ==
    IF out.raised \/ out.scored_results = <<>>
    THEN <<CommandsErrorResult(company)>>
    ELSE out.scored_results

\* commands_click.py: the breakdown it stores, fixed shares of the score
ClickDetails(confidence) ==
    [domain_match |-> RDiv(RMul(Rat(2, 5), confidence), Rat(100, 1)),
     tld_relevance |-> RDiv(RMul(Rat(1, 5), confidence), Rat(100, 1)),
     search_position |-> RDiv(RMul(Rat(3, 10), confidence), Rat(100, 1)),
     title_match |-> RDiv(RMul(Rat(1, 10), confidence), Rat(100, 1))]

\* commands_click.py: the loop over filtered_results; [raised, scorer, scored_results]
RECURSIVE ClickLoop(_, _, _, _, _, _)
ClickAppend(self, company, results, min_confidence, order, scored_results, search_result, confidence) ==
    IF search_result.raised
    THEN Raised(self)
    ELSE ClickLoop(self, company, Tail(results), min_confidence, order,
                   Append(scored_results,
                          ScoredResult(company, search_result.value, confidence,
                                       ClickDetails(confidence), FALSE).value))

ClickStep(out, company, results, min_confidence, order, scored_results) ==
    IF out.raised
    THEN Raised(out.scorer)
    ELSE IF RGe(out.ret, min_confidence)
    THEN ClickAppend(out.scorer, company, results, min_confidence, order, scored_results,
             ModelSearchResult(Head(results).url, Head(results).title,
                               Head(results).snippet, Max(1, Head(results).position)),
             out.ret)
    ELSE ClickLoop(out.scorer, company, Tail(results), min_confidence, order, scored_results)

ClickLoop(self, company, results, min_confidence, order, scored_results) ==
    IF results = <<>>
    THEN [raised |-> FALSE, scorer |-> self, scored_results |-> scored_results]
    ELSE ClickStep(calculate_score(self, company, Head(results), order),
                   company, results, min_confidence, order, scored_results)

\* the error entry commands_click.py appends
ClickErrorResult(company) ==
    ScoredResult(company, SearchResult(<<>>, <<>>, <<>>, 1), RZero, NoDetails, TRUE).value

\* what commands_click.py adds to its results for the company
ClickWritten(out, company) ==
    IF out.raised THEN <<ClickErrorResult(company)>> ELSE out.scored_results

\* weights a validated configuration can hold: they sum to 1
PipelineWeights ==
    { Weights(Rat(2, 5), Rat(1, 5), Rat(3, 10), Rat(1, 10)),
      Weights(Rat(1, 4), Rat(1, 4), Rat(1, 4), Rat(1, 4)) }

\* min_confidence of the configuration and of the command line
MinConfidences == {RZero, Rat(50, 1)}

nonPipeline == <<tracker, new_tracker, cache, cache_file, filt, hits, calls, dup, mirror, bfilter, pool, client, db>>

\* process_companies of either module, about to process one company: commands.py
\* builds its scorer from the configured weights, commands_click.py from the defaults
InitPipeline ==
    /\ tracker = NewTracker
    /\ new_tracker = NewTracker
    /\ cache = EmptyCache
    /\ cache_file = NoFile
    /\ filt = [static_blocklist |-> <<>>]
    /\ call = NoCall
    /\ hits = EmptyBag
    /\ calls = 0
    /\ dup = FALSE
    /\ mirror = IdleMirror
    /\ bfilter \in {BlocklistFilter(<<>>), BlocklistFilter(<<DomAgg>>)}
    /\ pool = NoPool
    /\ client = NoClient
    /\ db = EmptyDb
    /\ \E pipeline \in {"commands", "commands_click"}, min_confidence \in MinConfidences :
          /\ run = [pipeline |-> pipeline, min_confidence |-> min_confidence,
                    written |-> <<>>]
          /\ scorer \in IF pipeline = "commands"
                        THEN {ConfidenceScorer(Some(weights)) : weights \in PipelineWeights}
                        ELSE {ConfidenceScorer(None)}
    /\ job \in {[company |-> company, results |-> results, done |-> 0] :
                    company \in Companies, results \in CandidateLists}

\* the state after the body of the loop over companies, for one company
CompanyDone(out, written) ==
    /\ scorer' = out.scorer
    /\ run' = [run EXCEPT !.written = @ \o written]
    /\ job' = [job EXCEPT !.done = Len(job.results)]
    /\ call' = [op |-> "process_companies", raised |-> out.raised]

CommandsCompany(out) == CompanyDone(out, CommandsWritten(out, job.company))

ClickCompany(out) == CompanyDone(out, ClickWritten(out, job.company))

\* commands.py: search, filter, score and write for one company
CommandsProcessCompany(order) ==
    /\ run.pipeline = "commands"
    /\ job.done = 0
    /\ CommandsCompany(CommandsLoop(scorer, job.company,
                           blocklist_filter_results(bfilter.blocklist, job.results),
                           run.min_confidence, order, <<>>))
    /\ UNCHANGED nonPipeline

\* commands_click.py: search, filter, score and collect for one company
ClickProcessCompany(order) ==
    /\ run.pipeline = "commands_click"
    /\ job.done = 0
    /\ ClickCompany(ClickLoop(scorer, job.company,
                        blocklist_filter_results(bfilter.blocklist, job.results),
                        run.min_confidence, order, <<>>))
    /\ UNCHANGED nonPipeline

NextPipeline ==
    \/ \E order \in Orders(CompanyWords(job.company.company_name)) :
          CommandsProcessCompany(order)
    \/ \E order \in Orders(CompanyWords(job.company.company_name)) :
          ClickProcessCompany(order)

SpecPipeline == InitPipeline /\ [][NextPipeline]_vars

InUnit(x) == RLe(RZero, x) /\ RLe(x, ROne)

\* the candidate result, scored by the scorer, gives this score and this breakdown
ScoresAs(out, scored_result) ==
    /\ ~out.raised
    /\ out.ret = scored_result.confidence_score
    /\ get_scoring_details(out.scorer) = scored_result.scoring_details

\* C17: every non-error ScoredResult a pipeline produced carries the four sub-scores,
\* each in [0,1], that calculate_score computed for its candidate, and its
\* confidence_score is round(100 * the sum of weight * sub-score, 2) under the
\* scorer's normalized weights
C17_ScoreIsWeightedSumOfDetails ==
    \A i \in 1..Len(run.written) :
        ~run.written[i].error_flag =>
            /\ DOMAIN run.written[i].scoring_details = WeightKeys
            /\ \A key \in WeightKeys : InUnit(run.written[i].scoring_details[key])
            /\ run.written[i].confidence_score =
                  Round2(RMul(WeightedSum(scorer.weights, run.written[i].scoring_details),
                              Rat(100, 1)))
            /\ \E k \in 1..Len(job.results),
                  order \in Orders(CompanyWords(job.company.company_name)) :
                  /\ job.results[k].url = run.written[i].search_result.url
                  /\ ScoresAs(calculate_score(scorer, job.company, job.results[k], order),
                              run.written[i])

-----------------------------------------------------------------------------
(* Workers, each with a ConfidenceScorer of its own, built from one        *)
(* configuration                                                           *)

Workers == {1, 2}

\* the keys of the weights dict in iteration order
KeyOrder == <<"domain_match", "tld_relevance", "search_position", "title_match">>

\* the weights argument the workers pass: None, or the one dict of the configuration
\* (config.scoring_config['weights'] is the same object for every caller)
PoolConfigs ==
    { None,
      Some(Weights(Rat(2, 5), Rat(1, 5), Rat(3, 10), Rat(1, 10))),
      Some(Weights(Rat(1, 1), Rat(1, 1), Rat(1, 1), Rat(1, 1))),
      Some(Weights(Rat(3, 1), Rat(0, 1), Rat(0, 1), Rat(1, 1))) }

\* the candidates the two workers score
PoolCandidates ==
    { <<SearchResult(UrlAcmeUk, TitleAcme, <<>>, 1), SearchResult(UrlAcmeHyphen, <<>>, <<>>, 2)>>,
      <<SearchResult(UrlAcmeUk, TitleAcme, <<>>, 1), SearchResult(UrlAcmeUk, TitleAcme, <<>>, 1)>>,
      <<SearchResult(UrlShopAcme, TitleAbg, <<>>, 14), SearchResult(UrlAcmeSoftware, <<>>, <<>>, 11)>> }

\* a worker that has not yet called ConfidenceScorer(weights)
NewWorker(result) ==
    [pc |-> "new", own |-> None, total_weight |-> RZero, k |-> 1, last |-> None,
     ret |-> RZero, details |-> NoDetails, result |-> result, order |-> <<>>]

nonPool == <<tracker, new_tracker, cache, cache_file, filt, hits, calls, dup, mirror,
             scorer, job, bfilter, run, client, db>>

InitPool ==
    /\ tracker = NewTracker
    /\ new_tracker = NewTracker
    /\ cache = EmptyCache
    /\ cache_file = NoFile
    /\ filt = [static_blocklist |-> <<>>]
    /\ call = NoCall
    /\ hits = EmptyBag
    /\ calls = 0
    /\ dup = FALSE
    /\ mirror = IdleMirror
    /\ bfilter = BlocklistFilter(<<>>)
    /\ run = NoRun
    /\ client = NoClient
    /\ db = EmptyDb
    /\ scorer = ConfidenceScorer(None)
    /\ job = NoJob
    /\ pool \in {[given |-> config, config |-> config, company |-> company,
                  workers |-> [worker \in Workers |-> NewWorker(results[worker])]] :
                     config \in PoolConfigs, company \in {CoAcme, CoAcmeSoftware},
                     results \in PoolCandidates}

\* the dict self.weights refers to: the worker's own, or the configuration's
WeightsOf(worker) ==
    IF pool.workers[worker].own = None THEN pool.config[1] ELSE pool.workers[worker].own[1]

\* self.weights = weights or {defaults}: the caller's dict itself when one is given
BindWeights(worker) ==
    /\ pool.workers[worker].pc = "new"
    /\ pool' = [pool EXCEPT !.workers[worker].pc = "sum",
                            !.workers[worker].own =
                                IF pool.config = None THEN Some(DefaultWeights) ELSE None]
    /\ call' = [op |-> "__init__", worker |-> worker]
    /\ UNCHANGED nonPool

\* total_weight = sum(self.weights.values()); if total_weight > 0
SumValues(worker) ==
    /\ pool.workers[worker].pc = "sum"
    /\ pool' = [pool EXCEPT !.workers[worker].total_weight = SumWeights(WeightsOf(worker)),
                            !.workers[worker].pc =
                                IF RGt(SumWeights(WeightsOf(worker)), RZero)
                                THEN "divide" ELSE "score"]
    /\ call' = [op |-> "sum", worker |-> worker]
    /\ UNCHANGED nonPool

\* the dict d with d[key] /= total_weight
Divided(d, key, total_weight) == [d EXCEPT ![key] = RDiv(@, total_weight)]

\* self.weights[key] /= total_weight, for the next key
DivideKey(worker) ==
    /\ pool.workers[worker].pc = "divide"
    /\ pool' = [pool EXCEPT
                  !.workers[worker].k = @ + 1,
                  !.workers[worker].pc = IF pool.workers[worker].k = Len(KeyOrder)
                                         THEN "score" ELSE "divide",
                  !.workers[worker].own =
                      IF @ = None THEN None
                      ELSE Some(Divided(@[1], KeyOrder[pool.workers[worker].k],
                                        pool.workers[worker].total_weight)),
                  !.config =
                      IF pool.workers[worker].own # None THEN @
                      ELSE Some(Divided(@[1], KeyOrder[pool.workers[worker].k],
                                        pool.workers[worker].total_weight))]
    /\ call' = [op |-> "divide", worker |-> worker]
    /\ UNCHANGED nonPool

\* the worker after its calculate_score call whose outcome is out
WorkerScored(worker, order, out) ==
    /\ pool' = [pool EXCEPT !.workers[worker].pc = IF out.raised THEN "raised" ELSE "details",
                            !.workers[worker].last = out.scorer.last,
                            !.workers[worker].ret = out.ret,
                            !.workers[worker].order = order]
    /\ call' = [op |-> "worker_calculate_score", worker |-> worker]

\* the worker's scorer.calculate_score(company, result)
WorkerCalculateScore(worker, order) ==
    /\ pool.workers[worker].pc = "score"
    /\ WorkerScored(worker, order,
           calculate_score([weights |-> WeightsOf(worker), last |-> pool.workers[worker].last],
                           pool.company, pool.workers[worker].result, order))
    /\ UNCHANGED nonPool

\* the worker's scorer.get_scoring_details()
WorkerGetScoringDetails(worker) ==
    /\ pool.workers[worker].pc = "details"
    /\ pool' = [pool EXCEPT
                  !.workers[worker].pc = "done",
                  !.workers[worker].details =
                      get_scoring_details([weights |-> WeightsOf(worker),
                                           last |-> pool.workers[worker].last])]
    /\ call' = [op |-> "worker_get_scoring_details", worker |-> worker]
    /\ UNCHANGED nonPool

NextPool ==
    \/ \E worker \in Workers : BindWeights(worker)
    \/ \E worker \in Workers : SumValues(worker)
    \/ \E worker \in Workers : DivideKey(worker)
    \/ \E worker \in Workers, order \in Orders(CompanyWords(pool.company.company_name)) :
          WorkerCalculateScore(worker, order)
    \/ \E worker \in Workers : WorkerGetScoringDetails(worker)

SpecPool == InitPool /\ [][NextPool]_vars

\* the worker got what out, the outcome of the same call made alone, gives
SameAsAlone(worker, out) ==
    /\ ~out.raised
    /\ pool.workers[worker].ret = out.ret
    /\ pool.workers[worker].details = get_scoring_details(out.scorer)

\* C18: two workers build a ConfidenceScorer each from the same weights configuration,
\* then call calculate_score and get_scoring_details; however their steps interleave,
\* each gets the score and the breakdown it gets alone, and the weights of each
\* instance sum to 1
C18_WorkersIndependent ==
    (\A worker \in Workers : pool.workers[worker].pc = "done") =>
        \A worker \in Workers :
            /\ SameAsAlone(worker,
                   calculate_score(ConfidenceScorer(pool.given), pool.company,
                                   pool.workers[worker].result, pool.workers[worker].order))
            /\ SumWeights(WeightsOf(worker)) = ROne

-----------------------------------------------------------------------------
(* Candidate records and their position score                              *)

\* the ranks a candidate record is constructed with
MinRank == 0 - 3
MaxRank == 25
Ranks == MinRank..MaxRank

CandidateUrls == {UrlEmpty, UrlAcmeUk, UrlBg}
CandidateTitles == {<<>>, TitleAcme}

nonCandidate == <<tracker, new_tracker, cache, cache_file, filt, hits, calls, dup, mirror,
                  scorer, job, bfilter, run, pool, client, db>>

\* src.search.client.SearchResult(url, title, snippet, position): a plain dataclass
ClientSearchResult(url, title, snippet, position) ==
    /\ call' = [op |-> "client.SearchResult", position |-> position, raised |-> FALSE,
                value |-> SearchResult(url, title, snippet, position)]
    /\ UNCHANGED nonCandidate

\* src.core.models.SearchResult(url, title, snippet, position)
CoreSearchResult(url, title, snippet, position) ==
    /\ call' = [op |-> "models.SearchResult", position |-> position,
                raised |-> ModelSearchResult(url, title, snippet, position).raised,
                value |-> ModelSearchResult(url, title, snippet, position).value]
    /\ UNCHANGED nonCandidate

\* scorer._calculate_position_score(result) for the record just constructed
CalculatePositionScore ==
    /\ call.op \in {"client.SearchResult", "models.SearchResult"}
    /\ ~call.raised
    /\ call' = [op |-> "calculate_position_score", position |-> call.value.position,
                raised |-> FALSE, value |-> call.value,
                ret |-> calculate_position_score(call.value.position)]
    /\ UNCHANGED nonCandidate

NextCandidate ==
    \/ \E url \in CandidateUrls, title \in CandidateTitles, position \in Ranks :
          ClientSearchResult(url, title, <<>>, position)
    \/ \E url \in CandidateUrls, title \in CandidateTitles, position \in Ranks :
          CoreSearchResult(url, title, <<>>, position)
    \/ CalculatePositionScore

SpecCandidate == Init /\ [][NextCandidate]_vars

\* C19: constructing a SearchResult with a negative position raises a validation
\* error, for the record type of the search client as for the one of the core models
C19_NegativePositionRejected ==
    (call.op \in {"client.SearchResult", "models.SearchResult"} /\ call.position < 0)
        => call.raised

\* C20: the position sub-score is 1.0 for rank 1, 0.8 for rank 2, 0.6 for ranks 3 to 5,
\* 0.4 for ranks 6 to 10, max(0, 0.7 - 0.05 * rank) beyond rank 10 and 0.0 for a rank
\* of 0 or less; it lies in [0,1] and is at most the sub-score of every better rank
\* from 1 upward
C20_PositionScoreTable ==
    call.op = "calculate_position_score" =>
        /\ call.position <= 0 => call.ret = RZero
        /\ call.position = 1 => call.ret = ROne
        /\ call.position = 2 => call.ret = Rat(4, 5)
        /\ call.position \in 3..5 => call.ret = Rat(3, 5)
        /\ call.position \in 6..10 => call.ret = Rat(2, 5)
        /\ call.position > 10 =>
              call.ret = RMax(RZero, RSub(Rat(7, 10), Rat(call.position, 20)))
        /\ InUnit(call.ret)
        /\ \A rank \in 1..call.position : RLe(call.ret, calculate_position_score(rank))

\* a rank beyond 14, where 0.7 - 0.05 * rank is negative, has been scored
C20_Witness ==
    /\ call.op = "calculate_position_score"
    /\ call.position = 20
    /\ call.ret = RZero

-----------------------------------------------------------------------------
(* URLQualityAnalyzer                                                      *)

\* the URL after its netloc: what urlsplit goes on to cut into path, query and fragment
AfterNetloc(rest) ==
    IF StartsWith(rest, <<"/", "/">>)
    THEN SubSeq(rest, FirstIn(SubSeq(rest, 3, Len(rest)), {"/", "?", "#"}) + 2, Len(rest))
    ELSE rest

\* url.split('#', 1)[0]
NoFragment(s) == SubSeq(s, 1, FirstIn(s, {"#"}) - 1)

\* url.split('?', 1): the path before the first ?, the query after it
BeforeQuery(s) == SubSeq(s, 1, FirstIn(s, {"?"}) - 1)
AfterQuery(s) == SubSeq(s, FirstIn(s, {"?"}) + 1, Len(s))

\* parsed.path and parsed.query of a URL without ;parameters
urlparse_path(url) == BeforeQuery(NoFragment(AfterNetloc(AfterScheme(url))))
urlparse_query(url) == AfterQuery(NoFragment(AfterNetloc(AfterScheme(url))))

\* self._aggregator_keywords, the list as it is written
AggregatorKeywords ==
    << <<"c", "o", "m", "p", "a", "n", "y">>, <<"b", "u", "s", "i", "n", "e", "s", "s">>, <<"d", "a", "t", "a">>, <<"c", "h", "e", "c", "k">>, <<"d", "i", "r", "e", "c", "t", "o", "r", "y">>,
       <<"s", "e", "a", "r", "c", "h">>, <<"i", "n", "f", "o">>, <<"p", "r", "o", "f", "i", "l", "e">>, <<"r", "e", "g", "i", "s", "t", "e", "r">>, <<"d", "a", "t", "a", "b", "a", "s", "e">>,
       <<"b", "r", "o", "w", "s", "e">>, <<"i", "n", "s", "i", "g", "h", "t">>, <<"r", "e", "p", "o", "r", "t">>, <<"d", "e", "t", "a", "i", "l">>, <<"f", "i", "n", "d">>,
       <<"c", "h", "e", "c", "k">>, <<"v", "e", "r", "i", "f", "y">>, <<"s", "e", "a", "r", "c", "h">>, <<"l", "o", "o", "k", "u", "p">>, <<"d", "i", "r", "e", "c", "t", "o", "r", "y">> >>

GenuinePaths == << <<"/", "a", "b", "o", "u", "t">>, <<"/", "c", "o", "m", "p", "a", "n", "y">>, <<"/", "a", "b", "o", "u", "t", "-", "u", "s">>, <<"/", "c", "o", "n", "t", "a", "c", "t">>, <<"/", "t", "e", "a", "m">> >>

AggregatorPaths ==
    << <<"/", "c", "o", "m", "p", "a", "n", "y", "/">>, <<"/", "c", "o", "m", "p", "a", "n", "i", "e", "s", "/">>, <<"/", "b", "u", "s", "i", "n", "e", "s", "s", "/">>, <<"/", "p", "r", "o", "f", "i", "l", "e", "/">>,
       <<"/", "s", "e", "a", "r", "c", "h", "/">>, <<"/", "i", "n", "s", "i", "g", "h", "t", "/">>, <<"/", "r", "e", "p", "o", "r", "t", "/">>, <<"/", "d", "e", "t", "a", "i", "l", ".", "p", "h", "p">>,
       <<"/", "b", "r", "o", "w", "s", "e", "/">>, <<"/", "c", "o", "m", "p", "a", "n", "y", "-", "p", "r", "o", "f", "i", "l", "e", "s">>, <<"/", "d", "i", "r", "e", "c", "t", "o", "r", "y", "/">>,
       <<"/", "c", "o", "m", "p", "a", "n", "y", "_", "n", "u", "m", "b", "e", "r">>, <<"/", "c", "o", "m", "p", "a", "n", "y", "n", "a", "m", "e">>, <<"/", "c", "o", "m", "p", "/">> >>

CompanyParams == << <<"c", "o", "m", "p", "a", "n", "y">>, <<"c", "o", "m", "p">>, <<"b", "u", "s", "i", "n", "e", "s", "s">>, <<"i", "d">>, <<"n", "u", "m", "b", "e", "r">> >>

TrustedTlds == << <<"c", "o", ".", "u", "k">>, <<"c", "o", "m">>, <<"u", "k">>, <<"o", "r", "g">>, <<"n", "e", "t">>, <<"i", "o">>, <<"a", "i">>, <<"u", "k">> >>

\* re.findall(r'[A-Z][a-z]+|[a-z]+', s) on a lower-cased s: the maximal runs of a-z
RECURSIVE LowerRuns(_)
RunFrom(s) == SubSeq(s, 1, FirstIn(s, {c \in Range(s) : ~IsLower(c)}) - 1)
LowerRuns(s) ==
    IF s = <<>> THEN <<>>
    ELSE IF ~IsLower(Head(s)) THEN LowerRuns(Tail(s))
    ELSE <<RunFrom(s)>> \o LowerRuns(SubSeq(s, Len(RunFrom(s)) + 1, Len(s)))

\* any(word in domain.lower() for word in company_words)
NameMatch(company_name, domain) ==
    \E word \in Range(LowerRuns(StrLower(company_name))) : Contains(StrLower(domain), word)

\* what the loop over self._aggregator_keywords subtracts: 20 for each entry of the
\* list that occurs in the domain
RECURSIVE KeywordPenalty(_, _)
KeywordPenalty(keywords, domain) ==
    IF keywords = <<>> THEN 0
    ELSE (IF Contains(StrLower(domain), Head(keywords)) THEN 20 ELSE 0)
         + KeywordPenalty(Tail(keywords), domain)

\* company_name.lower().replace(' ', '')
NoSpaces(s) == SelectSeq(s, LAMBDA c : c # " ")

\* the bonus for an exact or close match
MatchBonus(company_name, domain) ==
    IF StartsWith(StrLower(domain), NoSpaces(StrLower(company_name))) THEN 10
    ELSE IF NameMatch(company_name, domain) THEN 5
    ELSE 0

\* max(0.0, min(100.0, score))
Clamp100(score) == Max(0, Min(100, score))

\* score of _analyze_domain before it is clamped
DomainScoreRaw(company_name, domain) ==
    100 - (IF NameMatch(company_name, domain) THEN 0 ELSE 50)
        - KeywordPenalty(AggregatorKeywords, domain)
        + MatchBonus(company_name, domain)

analyze_domain(company_name, domain) == Clamp100(DomainScoreRaw(company_name, domain))

ContainsAny(s, patterns) == \E i \in 1..Len(patterns) : Contains(s, StrLower(patterns[i]))

analyze_path(path) ==
    Clamp100(100 - (IF ContainsAny(StrLower(path), AggregatorPaths) THEN 30 ELSE 0)
                 + (IF ContainsAny(StrLower(path), GenuinePaths) THEN 10 ELSE 0))

analyze_parameters(query) ==
    IF query = <<>> THEN 100
    ELSE Clamp100(100 - (IF ContainsAny(StrLower(query), CompanyParams) THEN 40 ELSE 0))

\* parts[-1].lower() of domain.split('.')
LastLabel(parts) == StrLower(parts[Len(parts)])

TldScore(tld) ==
    IF tld \in Range(TrustedTlds) THEN 100
    ELSE IF Len(tld) <= 3 THEN 90
    ELSE 70

analyze_tld(domain) == TldScore(LastLabel(SplitOn(domain, ".")))

\* round(x, 1)
Round1(x) == Rat(RoundHalfEven(x.n * 10, x.d), 10)

\* the weighted average of the four component scores
FinalScore(domain_score, path_score, param_score, tld_score) ==
    Round1(RAdd(RAdd(RMul(Rat(domain_score, 1), Rat(2, 5)),
                     RMul(Rat(path_score, 1), Rat(3, 10))),
                RAdd(RMul(Rat(param_score, 1), Rat(1, 5)),
                     RMul(Rat(tld_score, 1), Rat(1, 10)))))

QualityOfParsed(company_name, url, parsed) ==
    IF parsed.raised THEN Rat(50, 1)
    ELSE FinalScore(analyze_domain(company_name, clean_domain(parsed.netloc)),
                    analyze_path(urlparse_path(url)),
                    analyze_parameters(urlparse_query(url)),
                    analyze_tld(clean_domain(parsed.netloc)))

\* the return value; no exception leaves the method
calculate_url_quality(company_name, url) == QualityOfParsed(company_name, url, urlparse(url))

QualityNames == { <<"T", "E", "S", "T">>, <<"A", "c", "m", "e", " ", "L", "t", "d">>, <<>>, <<"C", "h", "e", "c", "k", " ", "D", "a", "t", "a">>, <<"I", "n", "f", "o", " ", "S", "e", "a", "r", "c", "h", " ", "L", "t", "d">> }

QualityUrls ==
    { UrlNotAUrl, UrlBadBracket, UrlEmpty, <<"h", "t", "t", "p", "s", ":", "/", "/", "t", "e", "s", "t", ".", "c", "o", "m">>, <<"h", "t", "t", "p", "s", ":", "/", "/", "w", "w", "w", ".", "a", "c", "m", "e", ".", "c", "o", ".", "u", "k", "/", "a", "b", "o", "u", "t">>,
      <<"h", "t", "t", "p", "s", ":", "/", "/", "c", "h", "e", "c", "k", "a", "c", "m", "e", ".", "c", "o", "m", "/", "c", "o", "m", "p", "a", "n", "y", "/", "1", "?", "i", "d", "=", "3">>, <<"h", "t", "t", "p", "s", ":", "/", "/", "A", "C", "M", "E", ".", "c", "o", "m", ":", "8", "0", "8", "0", "/", "T", "e", "a", "m", "?", "x", "=", "1", "#", "f", "r", "a", "g">>,
      <<"h", "t", "t", "p", "s", ":", "/", "/", "c", "o", "m", "p", "a", "n", "y", "c", "h", "e", "c", "k", ".", "c", "o", ".", "u", "k", "/", "c", "o", "m", "p", "a", "n", "y", "/", "1", "2", "3">>, <<"h", "t", "t", "p", "s", ":", "/", "/", "s", "e", "a", "r", "c", "h", ".", "i", "n", "f", "o", "/", "d", "i", "r", "e", "c", "t", "o", "r", "y", "/", "?", "q", "=", "a", "c", "m", "e">>,
      <<"/", "/", "a", "c", "m", "e", ".", "i", "o", "/", "c", "o", "n", "t", "a", "c", "t">>, <<"h", "t", "t", "p", "s", ":", "/", "/", "a", "c", "m", "e", "l", "t", "d", ".", "l", "o", "n", "d", "o", "n">>, <<"h", "t", "t", "p", ":", "/", "/", "a", "c", "m", "e", ".", "c", "o", "m", "?", "n", "u", "m", "b", "e", "r", "=", "2">> }

QualityDomains ==
    { <<>>, <<"a", "c", "m", "e", ".", "c", "o", "m">>, <<"c", "h", "e", "c", "k", "a", "c", "m", "e", ".", "c", "o", "m">>, <<"c", "h", "e", "c", "k", ".", "c", "o", "m">>, <<"s", "e", "a", "r", "c", "h", "d", "i", "r", "e", "c", "t", "o", "r", "y", ".", "i", "n", "f", "o">>,
      <<"c", "o", "m", "p", "a", "n", "y", "c", "h", "e", "c", "k", ".", "c", "o", ".", "u", "k">>, <<"a", "c", "m", "e", "l", "t", "d", ".", "l", "o", "n", "d", "o", "n">>, <<"t", "e", "s", "t", ".", "c", "o", "m">>, <<"I", "N", "F", "O", ".", "n", "e", "t">>,
      <<"d", "a", "t", "a", "c", "h", "e", "c", "k", ".", "i", "o">>, <<"v", "e", "r", "i", "f", "y", "-", "l", "o", "o", "k", "u", "p", ".", "o", "r", "g">> }

\* analyzer.calculate_url_quality(company_name, url)
CalculateUrlQuality(company_name, url) ==
    /\ call' = [op |-> "calculate_url_quality", company_name |-> company_name, url |-> url,
                raised |-> FALSE, ret |-> calculate_url_quality(company_name, url)]
    /\ UNCHANGED nonCandidate

\* analyzer._analyze_domain(company_name, domain), with what its keyword loop subtracted
AnalyzeDomain(company_name, domain) ==
    /\ call' = [op |-> "analyze_domain", company_name |-> company_name, domain |-> domain,
                penalty |-> KeywordPenalty(AggregatorKeywords, domain),
                ret |-> analyze_domain(company_name, domain)]
    /\ UNCHANGED nonCandidate

NextQuality ==
    \/ \E company_name \in QualityNames, url \in QualityUrls :
          CalculateUrlQuality(company_name, url)
    \/ \E company_name \in QualityNames, domain \in QualityDomains :
          AnalyzeDomain(company_name, domain)

SpecQuality == Init /\ [][NextQuality]_vars

\* C21: for every company name, calculate_url_quality returns exactly 50.0, and does
\* not raise, when the URL is malformed: it cannot be parsed or has no network location
C21_MalformedUrlScoresFifty ==
    (call.op = "calculate_url_quality" /\ NoNetworkLocation(call.url)) =>
        /\ ~call.raised
        /\ call.ret = Rat(50, 1)

\* C25: the aggregator-keyword penalty of the domain analysis is 20 times the number
\* of distinct aggregator keywords that occur in the domain
C25_PenaltyPerDistinctKeyword ==
    call.op = "analyze_domain" =>
        call.penalty =
            20 * Cardinality({keyword \in Range(AggregatorKeywords) :
                                 Contains(StrLower(call.domain), keyword)})

-----------------------------------------------------------------------------
(* DuckDuckGoClient: search and its retry loop                             *)

\* self.max_retries, self.base_delay, self.max_delay
max_retries == 5
base_delay == 1
max_delay == 120

\* how many search calls a run makes
MaxSearchCalls == 2

\* the rate_limit argument of the constructor, requests per second
RateLimits == {Rat(1, 1), Rat(9, 2), Rat(10, 1)}

\* what one requests.get can produce besides a 200: the status of an error response
ErrorStatuses == {404, 429, 500}

\* an entry of data["results"]: a dict, or something else
RawResult(url, title, description) ==
    [dict |-> TRUE, url |-> url, title |-> title, description |-> description]
NotADict == [dict |-> FALSE]

\* the body of a 200 response: None for text that is not JSON, or the results list
Bodies ==
    { None,
      Some(<<>>),
      Some(<<RawResult(UrlAcmeUk, TitleAcme, <<>>), NotADict,
             RawResult(<<>>, TitleAcme, <<>>), RawResult(UrlBg, <<>>, <<>>)>>) }

RECURSIVE Pow2(_)
Pow2(n) == IF n = 0 THEN 1 ELSE 2 * Pow2(n - 1)

\* min(self.base_delay * (2 ** attempt), self.max_delay)
Delay(attempt) == Min(base_delay * Pow2(attempt), max_delay)

\* _adjust_rate_limit(error_type): the new self.rate_limit
adjust_rate_limit(rate_limit, error_type) ==
    IF error_type = "429" THEN RMax(Rat(2, 1), RMul(rate_limit, Rat(3, 5)))
    ELSE IF error_type = "500" THEN RMax(Rat(3, 1), RMul(rate_limit, Rat(4, 5)))
    ELSE rate_limit

\* the loop over enumerate(raw_results, 1) from the given position on
RECURSIVE ExtractResults(_, _)
ExtractResults(raw_results, position) ==
    IF raw_results = <<>> THEN <<>>
    ELSE IF ~Head(raw_results).dict THEN ExtractResults(Tail(raw_results), position + 1)
    ELSE IF Head(raw_results).url = <<>> THEN ExtractResults(Tail(raw_results), position + 1)
    ELSE <<SearchResult(Head(raw_results).url, Head(raw_results).title,
                        Head(raw_results).description, position)>>
         \o ExtractResults(Tail(raw_results), position + 1)

\* DuckDuckGoClient(api_key, rate_limit), no search made yet
NewClient(rate_limit) ==
    [pc |-> "idle", rate_limit |-> rate_limit, last_request_time |-> 0, searches |-> 0,
     attempt |-> 0, requests |-> 0, responses |-> <<>>, delay |-> 0,
     error |-> "none", results |-> <<>>]

nonClient == <<tracker, new_tracker, cache, cache_file, filt, hits, calls, dup, mirror,
               scorer, job, bfilter, run, pool, db>>

InitClient ==
    /\ tracker = NewTracker
    /\ new_tracker = NewTracker
    /\ cache = EmptyCache
    /\ cache_file = NoFile
    /\ filt = [static_blocklist |-> <<>>]
    /\ call = NoCall
    /\ hits = EmptyBag
    /\ calls = 0
    /\ dup = FALSE
    /\ mirror = IdleMirror
    /\ bfilter = BlocklistFilter(<<>>)
    /\ run = NoRun
    /\ db = EmptyDb
    /\ scorer = ConfidenceScorer(None)
    /\ job = NoJob
    /\ pool = NoPool
    /\ client \in {NewClient(rate_limit) : rate_limit \in RateLimits}

\* search(query) up to its first request: _enforce_rate_limit stamps the time, the
\* retry loop starts with attempt 0
SearchBegin ==
    /\ client.pc \in {"idle", "returned", "raised"}
    /\ client.searches < MaxSearchCalls
    /\ client' = [client EXCEPT !.pc = "request", !.searches = @ + 1,
                                !.last_request_time = client.searches + 1,
                                !.attempt = 0, !.requests = 0, !.responses = <<>>,
                                !.delay = 0, !.error = "none", !.results = <<>>]
    /\ call' = [op |-> "search"]
    /\ UNCHANGED nonClient

\* a retry that is not counted
SameAttempt(attempt) == attempt

\* the attempt counter after a request that is to be retried
NextAttempt(attempt) == attempt + 1

\* the client after sleeping for a retry: the loop goes on while attempt <= max_retries,
\* and raises SearchAPIError out of search when the retries are used up
Retried(c, attempt) ==
    [c EXCEPT !.delay = Delay(c.attempt),
              !.attempt = attempt,
              !.pc = IF attempt <= max_retries THEN "request" ELSE "raised",
              !.error = IF attempt <= max_retries THEN "none" ELSE "SearchAPIError"]

\* the client with one more request made, answered by response
Requested(c, response) ==
    [c EXCEPT !.requests = @ + 1, !.responses = Append(@, response)]

\* requests.get answers with an error status
RespondError(status) ==
    /\ client.pc = "request"
    /\ client' =
          IF status = 429
          THEN Retried([Requested(client, status) EXCEPT
                           !.rate_limit = adjust_rate_limit(@, "429")],
                       NextAttempt(client.attempt))
          ELSE IF status >= 500
          THEN Retried(Requested(client, status), NextAttempt(client.attempt))
          ELSE [Requested(client, status) EXCEPT !.pc = "raised",
                                                 !.error = "SearchAPIError"]
    /\ call' = [op |-> "requests.get", status |-> status]
    /\ UNCHANGED nonClient

\* requests.get raises a RequestException
NetworkError ==
    /\ client.pc = "request"
    /\ client' = Retried(Requested(client, 0), NextAttempt(client.attempt))
    /\ call' = [op |-> "requests.get", status |-> 0]
    /\ UNCHANGED nonClient

\* requests.get answers 200 with the given body: search parses it and returns
RespondOk(body) ==
    /\ client.pc = "request"
    /\ client' =
          IF body = None
          THEN [Requested(client, 200) EXCEPT !.pc = "raised", !.error = "SearchAPIError"]
          ELSE [Requested(client, 200) EXCEPT !.pc = "returned",
                                              !.results = ExtractResults(body[1], 1)]
    /\ call' = [op |-> "requests.get", status |-> 200]
    /\ UNCHANGED nonClient

NextClient ==
    \/ SearchBegin
    \/ \E status \in ErrorStatuses : RespondError(status)
    \/ NetworkError
    \/ \E body \in Bodies : RespondOk(body)

SpecClient == InitClient /\ [][NextClient]_vars

\* the API answers every request that is made
SpecClientLive == SpecClient /\ WF_vars(NextClient)

\* the search call in progress has ended
SearchEnded == client.pc \in {"returned", "raised"}

\* C22: when every response to a search request had status 429, search raises
\* RateLimitError
C22_All429RaisesRateLimitError ==
    (/\ SearchEnded
     /\ client.responses # <<>>
     /\ \A i \in 1..Len(client.responses) : client.responses[i] = 429)
        => client.error = "RateLimitError"

\* C24: every search call ends; whatever the responses, it makes at most
\* max_retries + 1 requests and then has returned a response or raised
\* SearchAPIError, and results exist only once it has returned
C24_SearchTerminates ==
    /\ [](client.requests <= max_retries + 1)
    /\ [](SearchEnded => (client.pc = "raised" <=> client.error = "SearchAPIError"))
    /\ [](client.results # <<>> => client.pc = "returned")
    /\ (client.pc = "request") ~> SearchEnded

\* a search that ended after max_retries + 1 requests answered by 429s, 5xx
\* responses and network errors
C24_Witness ==
    /\ client.pc = "raised"
    /\ client.requests = max_retries + 1
    /\ {429, 500, 0} \subseteq Range(client.responses)

\* C30: a rate-limit adjustment after a 429 response never raises the rate limit
C30_RateLimitNeverRaised ==
    [][(client.pc = "request" /\ call'.op = "requests.get" /\ call'.status = 429)
          => RLe(client'.rate_limit, client.rate_limit)]_vars

-----------------------------------------------------------------------------
(* CheckpointManager                                                       *)

\* how many checkpoints a run inserts
MaxCheckpoints == 3

\* the managers opened on the database file, by their batch_size
Managers == {50, 25}

BatchNumbers == 1..3
ProcessedCounts == {50, 100}
Statuses == {"completed", "failed"}

nonCheckpoint == <<tracker, new_tracker, cache, cache_file, filt, hits, calls, dup, mirror,
                   scorer, job, bfilter, run, pool, client>>

\* the row an INSERT adds: AUTOINCREMENT gives it the next id never used before, and
\* completed_at is the time of the call, here the order of the inserts
NewRow(database, batch_number, status, companies_processed) ==
    [id |-> database.last_id + 1, batch_number |-> batch_number,
     completed_at |-> database.last_id + 1, status |-> status,
     companies_processed |-> companies_processed]

\* the dict get_latest_checkpoint makes of a row
CheckpointOf(row) ==
    [batch_number |-> row.batch_number, completed_at |-> row.completed_at,
     status |-> row.status, companies_processed |-> row.companies_processed]

\* the row inserted last, whatever its batch_number
LastInsertedRows(rows) ==
    {row \in Range(rows) : \A other \in Range(rows) : other.id <= row.id}

\* the rows SELECT ... ORDER BY batch_number DESC LIMIT 1 may return: a row with the
\* highest batch_number; SQL leaves open which one when several rows hold it
LatestRows(rows) ==
    {row \in Range(rows) : \A other \in Range(rows) : other.batch_number <= row.batch_number}

\* get_resume_position, latest being what get_latest_checkpoint returned
get_resume_position(latest) ==
    IF latest = None THEN <<1, 0>>
    ELSE <<latest[1].batch_number + 1, latest[1].companies_processed>>

\* the results get_latest_checkpoint can return
LatestCheckpoints(rows) ==
    IF rows = <<>> THEN {None} ELSE {Some(CheckpointOf(row)) : row \in LatestRows(rows)}

\* manager.create_checkpoint(batch_number, companies_processed, status)
CreateCheckpoint(manager, batch_number, companies_processed, status) ==
    /\ db.last_id < MaxCheckpoints
    /\ db' = [rows |-> Append(db.rows,
                              NewRow(db, batch_number, status, companies_processed)),
              last_id |-> db.last_id + 1,
              recorded |-> db.recorded \cup
                  {[batch_number |-> batch_number, status |-> status,
                    companies_processed |-> companies_processed]}]
    /\ call' = [op |-> "create_checkpoint", manager |-> manager, ret |-> TRUE]
    /\ UNCHANGED nonCheckpoint

\* manager.get_latest_checkpoint()
GetLatestCheckpoint(manager) ==
    /\ \E latest \in LatestCheckpoints(db.rows) :
          call' = [op |-> "get_latest_checkpoint", manager |-> manager, ret |-> latest]
    /\ UNCHANGED db
    /\ UNCHANGED nonCheckpoint

\* manager.get_resume_position()
GetResumePosition(manager) ==
    /\ \E latest \in LatestCheckpoints(db.rows) :
          call' = [op |-> "get_resume_position", manager |-> manager,
                   ret |-> get_resume_position(latest)]
    /\ UNCHANGED db
    /\ UNCHANGED nonCheckpoint

\* manager.restart_from_scratch(): DELETE FROM the table; the ids are not given out again
RestartFromScratch(manager) ==
    /\ db' = [db EXCEPT !.rows = <<>>, !.recorded = {}]
    /\ call' = [op |-> "restart_from_scratch", manager |-> manager, ret |-> TRUE]
    /\ UNCHANGED nonCheckpoint

NextCheckpoint ==
    \/ \E manager \in Managers, batch_number \in BatchNumbers,
          companies_processed \in ProcessedCounts, status \in Statuses :
          CreateCheckpoint(manager, batch_number, companies_processed, status)
    \/ \E manager \in Managers : GetLatestCheckpoint(manager)
    \/ \E manager \in Managers : GetResumePosition(manager)
    \/ \E manager \in Managers : RestartFromScratch(manager)

SpecCheckpoint == Init /\ [][NextCheckpoint]_vars

\* the largest batch_number recorded since the last restart
LargestRecorded ==
    CHOOSE b \in {r.batch_number : r \in db.recorded} :
        \A r \in db.recorded : r.batch_number <= b

Unfinished(next_batch) ==
    {b \in 1..(next_batch - 1) :
        ~\E r \in db.recorded : r.batch_number = b /\ r.status = "completed"}

\* C29: get_resume_position never skips unfinished work: every batch below the batch
\* number it returns has a checkpoint with status completed
C29_ResumeSkipsNoUnfinishedBatch ==
    call.op = "get_resume_position" => Unfinished(call.ret[1]) = {}

-----------------------------------------------------------------------------
(* Determinism of the scorer                                               *)

\* two evaluations gave the same score and the same breakdown
SameOutcome(out, other) ==
    /\ out.raised = other.raised
    /\ out.ret = other.ret
    /\ get_scoring_details(out.scorer) = get_scoring_details(other.scorer)

\* C26: for the same weights, company and candidate, calculate_score returns the same
\* score and the same breakdown whichever order the company's token set is visited
\* in, and so whichever token the starts-with boost takes
C26_ScoreIndependentOfSetOrder ==
    call.op = "calculate_score" =>
        \A order, other \in Orders(CompanyWords(call.company.company_name)) :
            SameOutcome(calculate_score(scorer, call.company, call.result, order),
                        calculate_score(scorer, call.company, call.result, other))

-----------------------------------------------------------------------------
(* Sites seen for one company                                              *)

\* C27: a domain whose set of associated companies holds exactly one company is not
\* in identify_aggregators() with the default threshold and min_occurrences
C27_OneCompanyNeverAggregator ==
    \A domain \in DOMAIN tracker.company_domains :
        Cardinality(tracker.company_domains[domain]) = 1 =>
            domain \notin identify_aggregators(tracker, DefaultThreshold,
                                               DefaultMinOccurrences)

-----------------------------------------------------------------------------
(* process_companies of commands.py: counters and output rows              *)

\* how many companies the input file holds
MaxCompanies == 2

\* CSVWriter._scored_result_to_dict: the row of a result, written at the given time;
\* a blank field is None
scored_result_to_dict(result, now) ==
    [CompanyNumber |-> result.company.company_number,
     CompanyName |-> result.company.company_name,
     Postcode |-> result.company.postcode,
     SICCodes |-> <<>>,
     ConfidenceScore |-> result.confidence_score,
     ErrorFlag |-> result.error_flag,
     ProcessingTimestamp |-> now,
     DiscoveredURL |-> IF result.error_flag THEN <<>> ELSE result.search_result.url,
     SearchPosition |->
         IF result.error_flag THEN None ELSE Some(result.search_result.position),
     PageTitle |-> IF result.error_flag THEN <<>> ELSE result.search_result.title,
     PageSnippet |-> IF result.error_flag THEN <<>> ELSE result.search_result.snippet,
     DomainMatchScore |->
         IF result.error_flag THEN None ELSE Some(result.scoring_details.domain_match),
     TLDRelevanceScore |->
         IF result.error_flag THEN None ELSE Some(result.scoring_details.tld_relevance),
     SearchPositionScore |->
         IF result.error_flag THEN None ELSE Some(result.scoring_details.search_position),
     TitleMatchScore |->
         IF result.error_flag THEN None ELSE Some(result.scoring_details.title_match)]

\* the rows write_results appends for the results
WrittenRows(results, now) == [i \in 1..Len(results) |-> scored_result_to_dict(results[i], now)]

\* what search_client.search gives process_companies: None when it raises
SearchOutcomes ==
    { None,
      Some(<<>>),
      Some(<<SearchResult(UrlAcmeUk, TitleAcme, <<>>, 1),
             SearchResult(UrlAggWww, TitleAcme, <<>>, 2),
             SearchResult(UrlOwn, <<>>, <<>>, 3)>>),
      Some(<<SearchResult(UrlBg, <<>>, <<>>, 14)>>) }

\* the companies of the input file
InputCompanies == {CoAcme, CoAbg}

\* a run with the company processed without counting it as an error
ExceptUncounted(r, company, write_fails) ==
    IF write_fails THEN [r EXCEPT !.pc = "fatal"]
    ELSE [r EXCEPT !.rows = @ \o WrittenRows(<<CommandsErrorResult(company)>>,
                                             r.processed_count)]

\* the except branch of the loop body: count the error and write the placeholder; an
\* exception of that write is fatal
ExceptBranch(r, company, write_fails) ==
    IF write_fails THEN [r EXCEPT !.error_count = @ + 1, !.pc = "fatal"]
    ELSE [r EXCEPT !.error_count = @ + 1,
                   !.rows = @ \o WrittenRows(<<CommandsErrorResult(company)>>,
                                             r.processed_count)]

\* the end of the try body, out being the outcome of the scoring loop
WriteBranch(r, company, out, write_fails, retry_fails) ==
    IF out.raised \/ write_fails THEN ExceptBranch(r, company, retry_fails)
    ELSE IF out.scored_results # <<>>
    THEN [r EXCEPT !.rows = @ \o WrittenRows(out.scored_results, r.processed_count),
                   !.success_count = @ + 1]
    ELSE [r EXCEPT !.rows = @ \o WrittenRows(<<CommandsErrorResult(company)>>,
                                             r.processed_count),
                   !.error_count = @ + 1]

\* the state after one pass of the loop over the companies
IterationDone(company, out, write_fails, retry_fails) ==
    /\ scorer' = out.scorer
    /\ run' = WriteBranch([run EXCEPT !.processed_count = @ + 1], company, out,
                          write_fails, retry_fails)
    /\ call' = [op |-> "process_company", company |-> company, raised |-> out.raised]

\* one pass of the loop: the company read from the file, what the search gave, the
\* order of the company's word set, and whether the writes fail
CommandsIteration(company, search, order, write_fails, retry_fails) ==
    /\ run.pc = "running"
    /\ run.processed_count < MaxCompanies
    /\ IterationDone(company,
           IF search = None THEN Raised(scorer)
           ELSE CommandsLoop(scorer, company,
                             blocklist_filter_results(bfilter.blocklist, search[1]),
                             run.min_confidence, order, <<>>),
           write_fails, retry_fails)
    /\ UNCHANGED <<tracker, new_tracker, cache, cache_file, filt, hits, calls, dup, mirror,
                   job, bfilter, pool, client, db>>

InitCommands ==
    /\ tracker = NewTracker
    /\ new_tracker = NewTracker
    /\ cache = EmptyCache
    /\ cache_file = NoFile
    /\ filt = [static_blocklist |-> <<>>]
    /\ call = NoCall
    /\ hits = EmptyBag
    /\ calls = 0
    /\ dup = FALSE
    /\ mirror = IdleMirror
    /\ job = NoJob
    /\ pool = NoPool
    /\ client = NoClient
    /\ db = EmptyDb
    /\ bfilter = BlocklistFilter(<<DomAgg>>)
    /\ scorer \in {ConfidenceScorer(Some(weights)) : weights \in PipelineWeights}
    /\ run \in {[pipeline |-> "commands", min_confidence |-> min_confidence,
                 written |-> <<>>, pc |-> "running", processed_count |-> 0,
                 success_count |-> 0, error_count |-> 0, rows |-> <<>>] :
                    min_confidence \in MinConfidences}

NextCommands ==
    \E company \in InputCompanies, search \in SearchOutcomes,
       write_fails \in BOOLEAN, retry_fails \in BOOLEAN :
        \E order \in Orders(CompanyWords(company.company_name)) :
            CommandsIteration(company, search, order, write_fails, retry_fails)

SpecCommands == InitCommands /\ [][NextCommands]_vars

\* the row is the placeholder of a company without a result
PlaceholderRow(row) ==
    /\ row.ErrorFlag
    /\ row.ConfidenceScore = RZero
    /\ row.DiscoveredURL = <<>>
    /\ row.DomainMatchScore = None
    /\ row.TLDRelevanceScore = None
    /\ row.SearchPositionScore = None
    /\ row.TitleMatchScore = None

\* the rows are one or more results at or above min_confidence, or one placeholder
RowsOfOneCompany(rows, min_confidence) ==
    \/ /\ rows # <<>>
       /\ \A i \in 1..Len(rows) :
             ~rows[i].ErrorFlag /\ RGe(rows[i].ConfidenceScore, min_confidence)
    \/ /\ Len(rows) = 1
       /\ PlaceholderRow(rows[1])

\* C28: after each company handled without a fatal error, processed_count =
\* success_count + error_count, exactly one of the two counters has grown by one, and
\* the rows written for the company are results at or above min_confidence with
\* error_flag false, or one placeholder row with error_flag true, score 0 and blank
\* URL and sub-score fields
C28_OneCountAndOneOutcomePerCompany ==
    [][(run'.pc = "running" /\ run'.processed_count = run.processed_count + 1) =>
          /\ run'.processed_count = run'.success_count + run'.error_count
          /\ (run'.success_count - run.success_count)
                + (run'.error_count - run.error_count) = 1
          /\ run'.success_count >= run.success_count
          /\ run'.error_count >= run.error_count
          /\ RowsOfOneCompany(SubSeq(run'.rows, Len(run.rows) + 1, Len(run'.rows)),
                              run.min_confidence)]_vars

\* two companies handled, one with results and one whose search raised
C28_Witness ==
    /\ run.pc = "running"
    /\ run.processed_count = 2
    /\ run.success_count = 1
    /\ run.error_count = 1
    /\ call.op = "process_company"
    /\ call.raised
    /\ Len(run.rows) > 2

====
